---------------------------- MODULE Spec2Model ----------------------------
(***************************************************************************)
(* A model of the visual diff engine (services/differ.py), of the asset    *)
(* loaders (services/differ.py, services/previewer.py) and of the asset    *)
(* store (utils/storage.py) of pdf-to-html-service.                        *)
(*                                                                         *)
(* Conventions.                                                            *)
(*  - An image is a record [w, h, px]; px[y][x] is the <<r, g, b>> triple  *)
(*    of the pixel in column x of row y, both counted from 0.              *)
(*  - A float that the code rounds to 4 decimals (score, diff_pct) is the  *)
(*    integer number of ten-thousandths: 1.0 is 10000, 0.01 is 100.        *)
(***************************************************************************)
EXTENDS Integers, Sequences, FiniteSets, TLC

VARIABLES
    \* ---- visual_diff(url_a, url_b): one call, step by step
    pc,         \* position in visual_diff
    in_a,       \* img_a as loaded and converted to RGB (line 45)
    in_b,       \* img_b as loaded and converted to RGB (line 46)
    img_a,      \* the local img_a (reassigned by lines 55, 65)
    img_b,      \* the local img_b (reassigned by lines 57, 69)
    scaled_a,   \* img_a as it stands after line 57 (history)
    scaled_b,   \* img_b as it stands after line 57 (history)
    w,          \* target_w
    h,          \* target_h
    diff_blur,  \* the blurred difference image (line 75)
    diff_count, \* line 79
    score,      \* line 83, in ten-thousandths
    diffs,      \* line 88..107, a sequence of [row, col, diff_pct]
    result,     \* "none" while running, "ok" on return, "error" on an exception
    ret,        \* the dict returned by lines 109..114
    \* ---- one cell of the grid loop (lines 100..107), on its counts alone
    one_pc,
    one_total, \* len(cell_data)
    one_diff,  \* line 104
    one_pct,   \* line 105, in ten-thousandths
    one_listed, \* whether line 107 appended the cell
    \* ---- the asset store (utils/storage.py) and the two asset loaders
    now,        \* utcnow(), in ticks
    dirs,       \* OUTPUT_FOLDER: per process id, the directory and its files
    last,       \* the outcome of the latest _load_image / fetcher call
    \* ---- visual_diff on two large images that differ in one grid cell
    region_pc,
    region_in,    \* the cell (row, col) and the difference |a - b| inside it
    region_blur,  \* diff_blur, as its blurred row and its blurred columns
    region_count, \* diff_count
    region_score, \* score
    region_ret,   \* the value returned
    \* ---- an asset URL built by the store and resolved by the loaders
    url_pc,
    url_in,   \* public_base_url, process_id and asset_path of the call
    url_built,   \* the URL build_public_asset_url returned
    url_seen,  \* what the two loaders make of that URL
    \* ---- extract_pdf_content(pdf_path, output_dir, public_base_url, process_id)
    ex_pc,
    ex_doc,   \* the document fitz.open returned (line 40)
    ex_page_num,   \* page_num of the loop of line 44
    ex_idx,   \* position in page.get_images(full=True), from 1
    img_counter,   \* img_counter[0]
    ex_images,   \* the list images of _extract_page_images
    ex_pages,   \* the list pages (line 41)
    ex_written,   \* the paths opened for writing by line 203, in order
    ex_result,  \* "none" while running, "ok" on return, "error" on an exception
    \* ---- _extract_page_texts(page)
    tx_pc,
    tx_block,   \* one block of page.get_text('dict')['blocks'] (line 120)
    tx_idx,   \* position in block['lines'], from 1
    tx_texts,  \* the list texts (line 119)
    \* ---- render_page_previews(pdf_path, output_dir, public_base_url, process_id, dpi)
    rp_pc,
    rp_doc,   \* the native size of the render of each page (line 83)
    rp_page_num,   \* page_num of the loop of line 82
    rp_saved,   \* the files saved by lines 93 and 95, with their sizes
    preview_urls,  \* the list of line 79
    \* ---- html_to_png(html_content, output_dir, public_base_url, process_id)
    pv_pc,
    pv_in,   \* the arguments, and what weasyprint makes of html_content
    pv_dir,   \* output_dir on disk
    pv_wrote,   \* whether this call wrote png_path (line 89)
    pv_error,   \* the exception the call ended with
    pv_ret,  \* the URL returned (line 92)
    \* ---- render_modules_to_html(modules, page_width_px)
    rm_pc,
    rm_in,   \* modules and page_width_px
    rm_idx,   \* position of the generator of line 29 in modules, from 1
    rm_rows,   \* the rows rendered so far
    rm_html,  \* the document returned (line 30)
    \* ---- cleanup_expired_outputs() beside the requests
    sweep,   \* each running cleanup_expired_outputs(): where it is in its loop
    made,  \* the process ids drawn so far by uuid.uuid4()
    \* ---- GET /convert?action=download|view|asset (app.py)
    gt_pc,
    gt_req,   \* the action, process_id and asset_path of the GET request
    gt_was,   \* whether the process directory existed and was expired when the request arrived
    gt_resp,  \* the response: status, error text, the file sent
    \* ---- html_to_png called again and again (services/previewer.py)
    pa_disk,   \* the image held by each preview.png path, NoImage when there is no file
    pa_calls,  \* the html_to_png calls that returned: the image made and the URL returned
    \* ---- utils/pdf_input.py: resolve_pdf_input, download_pdf_from_url
    rs_pc,
    rs_req,   \* the request: the uploaded file, the JSON body, the form field, and what the remote server answers
    rs_upload,   \* the paths of the files in upload_folder
    rs_ret,  \* what resolve_pdf_input returned or raised
    \* ---- app.py: POST /convert
    cv_pc,
    cv_req,   \* the POST request: the uploaded file, the form fields, and how the tools it runs end
    cv_upload,   \* the paths of the files in UPLOAD_FOLDER
    cv_temp,   \* temp_paths
    cv_resp,  \* the HTTP status returned, 0 before the return
    \* ---- app.py: rewrite_html_images_to_embedded_data_uris
    em_pc,
    em_in,   \* html_content as its elements, image_urls, and the URLs whose download fails
    em_idx,   \* the position in image_urls
    em_uris,   \* data_uris
    em_out   \* the html returned

diffVars == <<pc, in_a, in_b, img_a, img_b, scaled_a, scaled_b, w, h,
              diff_blur, diff_count, score, diffs, result, ret>>

cellVars == <<one_pc, one_total, one_diff, one_pct, one_listed>>

storeVars == <<now, dirs, last>>

regionVars == <<region_pc, region_in, region_blur, region_count, region_score, region_ret>>
urlVars == <<url_pc, url_in, url_built, url_seen>>
extractVars == <<ex_pc, ex_doc, ex_page_num, ex_idx, img_counter, ex_images, ex_pages, ex_written, ex_result>>
textsVars == <<tx_pc, tx_block, tx_idx, tx_texts>>
renderVars == <<rp_pc, rp_doc, rp_page_num, rp_saved, preview_urls>>
previewVars == <<pv_pc, pv_in, pv_dir, pv_wrote, pv_error, pv_ret>>
modulesVars == <<rm_pc, rm_in, rm_idx, rm_rows, rm_html>>
sweepVars == <<sweep, made>>
getVars == <<gt_pc, gt_req, gt_was, gt_resp>>
againVars == <<pa_disk, pa_calls>>
resolveVars == <<rs_pc, rs_req, rs_upload, rs_ret>>
convertVars == <<cv_pc, cv_req, cv_upload, cv_temp, cv_resp>>
embedVars == <<em_pc, em_in, em_idx, em_uris, em_out>>
vars == <<diffVars, cellVars, storeVars, regionVars, urlVars, extractVars, textsVars, renderVars, previewVars, modulesVars, sweepVars, getVars, againVars, resolveVars, convertVars, embedVars>>

Min(a, b) == IF a <= b THEN a ELSE b
Max(a, b) == IF a >= b THEN a ELSE b
Abs(a) == IF a >= 0 THEN a ELSE -a

---------------------------------------------------------------------------
(* Program constants of services/differ.py *)

_THRESHOLD == 15
_CELL_MIN_PCT == 100        \* 0.01, in ten-thousandths
_GRID == 8

---------------------------------------------------------------------------
(* Images *)

White == <<255, 255, 255>>
Black == <<0, 0, 0>>
NoImage == [w |-> 0, h |-> 0, px |-> <<>>]
NoReturn == [score |-> -1, width |-> -1, height |-> -1, diffs |-> <<>>]

\* Image.new('RGB', (w, h), colour)
NewImage(iw, ih, c) ==
    [w |-> iw, h |-> ih, px |-> [y \in 0..(ih - 1) |-> [x \in 0..(iw - 1) |-> c]]]

\* An image of one colour with a rectangle [x0, x1) x [y0, y1) of another.
RectImage(iw, ih, bg, fg, x0, y0, x1, y1) ==
    [w |-> iw, h |-> ih,
     px |-> [y \in 0..(ih - 1) |-> [x \in 0..(iw - 1) |->
                IF x0 <= x /\ x < x1 /\ y0 <= y /\ y < y1 THEN fg ELSE bg]]]

Area(img) == img.w * img.h


\* ImageChops.difference(img_a, img_b): the absolute difference per channel.
Difference(a, b) ==
    [w |-> a.w, h |-> a.h,
     px |-> [y \in 0..(a.h - 1) |-> [x \in 0..(a.w - 1) |->
                <<Abs(a.px[y][x][1] - b.px[y][x][1]),
                  Abs(a.px[y][x][2] - b.px[y][x][2]),
                  Abs(a.px[y][x][3] - b.px[y][x][3])>>]]]

---------------------------------------------------------------------------
(* ImageFilter.GaussianBlur(radius=1), as Pillow computes it: three passes *)
(* of an extended box blur in each direction.  For radius 1 and 3 passes   *)
(* the box radius is 0.25, so that one pass weighs a pixel by ww / 2^24    *)
(* and each of its two neighbours by fw / 2^24 (the edge pixel repeated    *)
(* outside the line), and rounds to the nearest 8-bit value.               *)

Fix24 == 16777216                   \* 1 << 24
BoxWW == (Fix24 * 2) \div 3         \* (1 << 24) / (0.25 * 2 + 1), truncated
BoxFW == (Fix24 - BoxWW) \div 2
Fix12 == 4096

\* (c * ww + (l + r) * fw + (1 << 23)) >> 24, computed in two 12-bit halves
\* so that no intermediate value leaves the 32-bit range.
BoxPixel(c, l, r) ==
    LET hi == c * (BoxWW \div Fix12) + (l + r) * (BoxFW \div Fix12) + (Fix12 \div 2)
        lo == c * (BoxWW % Fix12) + (l + r) * (BoxFW % Fix12)
    IN  (hi + (lo \div Fix12)) \div Fix12

\* One horizontal box-blur pass over all rows of an image.
HorizontalBoxBlur(img) ==
    [img EXCEPT !.px =
        [y \in 0..(img.h - 1) |-> [x \in 0..(img.w - 1) |->
            LET c == img.px[y][x]
                l == img.px[y][Max(x - 1, 0)]
                r == img.px[y][Min(x + 1, img.w - 1)]
            IN  <<BoxPixel(c[1], l[1], r[1]),
                  BoxPixel(c[2], l[2], r[2]),
                  BoxPixel(c[3], l[3], r[3])>>]]]

\* ImagingTranspose
Transpose(img) ==
    [w |-> img.h, h |-> img.w,
     px |-> [y \in 0..(img.w - 1) |-> [x \in 0..(img.h - 1) |-> img.px[x][y]]]]

BoxPasses == 3

RECURSIVE HorizontalPasses(_, _)
HorizontalPasses(img, n) ==
    IF n = 0 THEN img ELSE HorizontalPasses(HorizontalBoxBlur(img), n - 1)

GaussianBlur(img) ==
    Transpose(HorizontalPasses(Transpose(HorizontalPasses(img, BoxPasses)), BoxPasses))

---------------------------------------------------------------------------
(* Rounding *)

\* round(num / den) of Python for num >= 0, den > 0: to the nearest integer,
\* a tie to the even one (num / den is exact in a double when it is a tie).
RoundHalfEven(num, den) ==
    LET q == num \div den
        r == num % den
    IN  IF 2 * r < den THEN q
        ELSE IF 2 * r > den THEN q + 1
        ELSE IF q % 2 = 0 THEN q ELSE q + 1

\* Whether num / den lies exactly halfway between two multiples of 0.0001.
\* round(num / den, 4) in ten-thousandths, for 0 <= num <= den, den > 0.
\* Python rounds the double nearest to num / den correctly; at a decimal tie
\* that double lies above or below the tie, and `up` says which.
\* The quotient is taken one decimal digit at a time.
NextDigit(qr, den) ==
    [q |-> 10 * qr.q + (10 * qr.r) \div den, r |-> (10 * qr.r) % den]

Round4(num, den, up) ==
    LET units == [q |-> num \div den, r |-> num % den]
        t == NextDigit(NextDigit(NextDigit(NextDigit(units, den), den), den), den)
    IN  IF 2 * t.r < den THEN t.q
        ELSE IF 2 * t.r > den THEN t.q + 1
        ELSE IF up THEN t.q + 1 ELSE t.q

---------------------------------------------------------------------------
(* visual_diff: normalisation (lines 51..71) *)

\* The height line 55 / 57 asks resize for.
ScaledHeight(ih, iw, target_w) == RoundHalfEven(ih * target_w, iw)

\* Whether Image.resize((rw, rh)) raises: Pillow refuses a size below 1.
ResizeRaises(rw, rh) == rw < 1 \/ rh < 1

\* The pixel values a Lanczos resampling to rw x rh may produce.  The filter
\* is not computed here: every image of a small family stands for its output.
ResampleOutputs(rw, rh) ==
    { NewImage(rw, rh, White), NewImage(rw, rh, Black),
      RectImage(rw, rh, White, Black, 0, 0, 1, rh) }

\* Lines 62..65 (66..69): the image pasted at (0, 0) onto a white canvas of
\* target_h rows when it is shorter, the image itself otherwise.
PadToHeight(img, target_w, target_h) ==
    IF img.h < target_h
    THEN [w |-> target_w, h |-> target_h,
          px |-> [y \in 0..(target_h - 1) |-> [x \in 0..(target_w - 1) |->
                    IF y < img.h /\ x < img.w THEN img.px[y][x] ELSE White]]]
    ELSE img

\* A slip for line 60: the canvas takes the height of the shorter image.
TargetHeight_min(ha, hb) == Min(ha, hb)

\* Line 60.
TargetHeight(ha, hb) == Max(ha, hb)

---------------------------------------------------------------------------
(* visual_diff: score (lines 77..83) *)

MaxChannel(p) == Max(p[1], Max(p[2], p[3]))

\* Slips for line 81: the threshold itself counts; any difference counts.
IsDifferent_ge(p) == MaxChannel(p) >= _THRESHOLD
IsDifferent_any(p) == MaxChannel(p) > 0

\* max(r, g, b) > _THRESHOLD
IsDifferent(p) == MaxChannel(p) > _THRESHOLD

Pixels(cw, ch) == (0..(cw - 1)) \X (0..(ch - 1))

\* Lines 79..82.
CountDifferent(img) ==
    Cardinality({ p \in Pixels(img.w, img.h) : IsDifferent(img.px[p[2]][p[1]]) })

\* Line 83.
ScoreOf(count, total_px, up) ==
    IF total_px # 0 THEN Round4(total_px - count, total_px, up) ELSE 10000

---------------------------------------------------------------------------
(* visual_diff: the grid of regions (lines 85..107) *)

CellW(cw) == Max(1, cw \div _GRID)
CellH(ch) == Max(1, ch \div _GRID)

\* Lines 93..98: the box (left, upper, right, lower) of cell (row, col).
Box(row, col, cw, ch) ==
    [left  |-> col * CellW(cw),
     upper |-> row * CellH(ch),
     right |-> Min((col + 1) * CellW(cw), cw),
     lower |-> Min((row + 1) * CellH(ch), ch)]

\* A box Image.crop refuses (ValueError) in a Pillow that checks its
\* coordinates; an older Pillow returns an empty image for it.
Inverted(box) == box.right < box.left \/ box.lower < box.upper

\* The pixels diff_rgb.crop(box) holds.
CellPixels(box) ==
    (box.left..(box.right - 1)) \X (box.upper..(box.lower - 1))

\* Line 104.
CellDiff(img, box) ==
    Cardinality({ p \in CellPixels(box) : IsDifferent(img.px[p[2]][p[1]]) })

\* Line 105.
CellPct(cell_diff, cell_total, up) == Round4(cell_diff, cell_total, up)

\* A slip for line 106: a cell at the minimum itself is reported.
CellReported_ge(pct) == pct >= _CELL_MIN_PCT

\* Line 106.
CellReported(pct) == pct > _CELL_MIN_PCT

\* Lines 91..107: the cells in row-major order, from cell number k on; a
\* cell without pixels is passed over (line 102) and one above the minimum
\* is reported (line 106).
GridFrom(img, k, up) ==
    LET Cell(n) ==
            LET row == n \div _GRID
                col == n % _GRID
                box == Box(row, col, img.w, img.h)
                cell_total == Cardinality(CellPixels(box))
            IN  [row |-> row, col |-> col, cell_total |-> cell_total,
                 diff_pct |-> IF cell_total = 0 THEN 0
                              ELSE CellPct(CellDiff(img, box), cell_total, up)]
        cells == [i \in 1..(_GRID * _GRID - k) |-> Cell(k + i - 1)]
        Kept(cell) == cell.cell_total # 0 /\ CellReported(cell.diff_pct)
        kept == SelectSeq(cells, Kept)
    IN  [i \in 1..Len(kept) |->
            [row |-> kept[i].row, col |-> kept[i].col, diff_pct |-> kept[i].diff_pct]]

GridDiffs(img, up) == GridFrom(img, 0, up)

\* Whether some crop of the loop is handed an inverted box.
SomeInverted(cw, ch) ==
    { k \in 0..(_GRID * _GRID - 1) : Inverted(Box(k \div _GRID, k % _GRID, cw, ch)) } # {}

---------------------------------------------------------------------------
(* The images a call is given *)

\* The sizes <<width, height>> of the images: no columns, no rows (the
\* images of zero area of which line 83 takes account), smaller than the
\* grid, the grid exactly, and the grid with a remainder in either or both
\* directions.
MaxDim == 9
Sizes ==
    { <<0, MaxDim - 1>>, <<MaxDim - 1, 0>>, <<3, 3>>,
      <<MaxDim - 1, MaxDim - 1>>, <<MaxDim - 1, MaxDim>>,
      <<MaxDim, MaxDim - 1>>, <<MaxDim, MaxDim>> }

Grey240 == <<240, 240, 240>>     \* 15 away from white in every channel
Grey243 == <<243, 243, 243>>     \* 12 away from white in every channel
Tint239 == <<239, 255, 250>>     \* 16 away from white in one channel

InputImages(iw, ih) ==
    { NewImage(iw, ih, White), NewImage(iw, ih, Black),
      NewImage(iw, ih, Grey240), NewImage(iw, ih, Grey243),
      RectImage(iw, ih, White, Black, iw - 1, 0, iw, ih),
      RectImage(iw, ih, White, Tint239, 0, 0, 1, 1) }

Inputs == UNION { InputImages(sz[1], sz[2]) : sz \in Sizes }

---------------------------------------------------------------------------
(* Strings.  A URL, a path or a query value is a sequence of tokens; a     *)
(* token stands for a run of characters that the code never splits.        *)

StartsWith(str, prefix) ==
    Len(str) >= Len(prefix) /\ SubSeq(str, 1, Len(prefix)) = prefix

\* sub in str
Contains(str, sub) ==
    \E i \in 1..(Len(str) - Len(sub) + 1) : SubSeq(str, i, i + Len(sub) - 1) = sub

\* str.rstrip('/')
RECURSIVE RStripSlash(_)
RStripSlash(str) ==
    IF str # <<>> /\ str[Len(str)] = "/" THEN RStripSlash(SubSeq(str, 1, Len(str) - 1))
    ELSE str

\* The position of the first tok in str from position i on, 0 when none.
RECURSIVE IndexFrom(_, _, _)
IndexFrom(str, tok, i) ==
    IF i > Len(str) THEN 0
    ELSE IF str[i] = tok THEN i ELSE IndexFrom(str, tok, i + 1)

\* urllib.parse.quote_plus of one token, and its inverse in parse_qs.
\* A slip for line 85 of storage.py: the values go into the URL as they are.
QuotePlusToken_raw(tok) == tok

QuotePlusToken(tok) ==
    CASE tok = "/" -> "%2F"
      [] tok = " " -> "+"
      [] tok = "&" -> "%26"
      [] tok = "=" -> "%3D"
      [] tok = "?" -> "%3F"
      [] tok = "#" -> "%23"
      [] OTHER     -> tok

UnquotePlusToken(tok) ==
    CASE tok = "%2F" -> "/"
      [] tok = "+"   -> " "
      [] tok = "%26" -> "&"
      [] tok = "%3D" -> "="
      [] tok = "%3F" -> "?"
      [] tok = "%23" -> "#"
      [] OTHER       -> tok

QuotePlus(str) == [i \in 1..Len(str) |-> QuotePlusToken(str[i])]
UnquotePlus(str) == [i \in 1..Len(str) |-> UnquotePlusToken(str[i])]

\* urllib.parse.urlparse(url).query: what follows the first "?", up to "#".
UrlQuery(url) ==
    LET q == IndexFrom(url, "?", 1)
        f == IndexFrom(url, "#", 1)
        stop == IF f = 0 THEN Len(url) ELSE f - 1
    IN  IF q = 0 \/ (f # 0 /\ f < q) THEN <<>> ELSE SubSeq(url, q + 1, stop)

\* The first value of `key` in urllib.parse.parse_qs(query), '' when the key
\* is absent or has only blank values: (qs.get(key) or [''])[0].
RECURSIVE QueryValue(_, _)
QueryValue(query, key) ==
    IF query = <<>> THEN <<>>
    ELSE LET amp  == IndexFrom(query, "&", 1)
             item == IF amp = 0 THEN query ELSE SubSeq(query, 1, amp - 1)
             rest == IF amp = 0 THEN <<>> ELSE SubSeq(query, amp + 1, Len(query))
             eq   == IndexFrom(item, "=", 1)
             name == IF eq = 0 THEN item ELSE SubSeq(item, 1, eq - 1)
             val  == IF eq = 0 THEN <<>> ELSE SubSeq(item, eq + 1, Len(item))
         IN  IF UnquotePlus(name) = <<key>> /\ val # <<>> THEN UnquotePlus(val)
             ELSE QueryValue(rest, key)

\* os.path.basename(path): what follows the last "/".
RECURSIVE Basename(_)
Basename(path) ==
    LET i == IndexFrom(path, "/", 1)
    IN  IF i = 0 THEN path ELSE Basename(SubSeq(path, i + 1, Len(path)))

\* os.path.join(a, b)
PathJoin(a, b) ==
    IF b # <<>> /\ b[1] = "/" THEN b
    ELSE IF a = <<>> \/ a[Len(a)] = "/" THEN a \o b
    ELSE a \o <<"/">> \o b

---------------------------------------------------------------------------
(* utils/storage.py *)

OUTPUT_FOLDER == <<"/", "tmp", "/", "outputs">>
PROCESS_META_FILENAME == "_process_meta.json"

\* build_public_asset_url(public_base_url, process_id, asset_path)
build_public_asset_url(public_base_url, process_id, asset_path) ==
    public_base_url \o <<"/assets", "?">>
        \o <<"process_id", "=">> \o QuotePlus(process_id)
        \o <<"&", "asset_path", "=">> \o QuotePlus(asset_path)

\* The processes whose directory the model creates, and the process ids a
\* URL may name (one of them never has a directory).
Pids == {"p1"}
UrlPids == Pids \cup {"p2"}
NoDir == [exists |-> FALSE, files |-> {}, expires_at |-> -1]

\* os.path.join(OUTPUT_FOLDER, pid): the directory of a process.
OutputDir(pid) == PathJoin(OUTPUT_FOLDER, <<pid>>)

\* The regular files under OUTPUT_FOLDER in store d, as paths.
FilesOnDisk(d) ==
    UNION { { PathJoin(OutputDir(p), <<f>>) : f \in d[p].files }
              \cup (IF d[p].expires_at >= 0
                    THEN {PathJoin(OutputDir(p), <<PROCESS_META_FILENAME>>)} ELSE {})
            : p \in { q \in Pids : d[q].exists } }

\* os.path.isfile(path)
IsFile(d, path) == path \in FilesOnDisk(d)

\* A slip for lines 62..64: a directory without metadata counts as expired.
is_output_expired_nometa(d, p, t) ==
    IF ~d[p].exists THEN FALSE
    ELSE t >= d[p].expires_at

\* is_output_expired(output_dir)[0] for the directory of process p at time t:
\* no metadata, not expired.
is_output_expired(d, p, t) ==
    IF ~d[p].exists \/ d[p].expires_at < 0 THEN FALSE
    ELSE t >= d[p].expires_at

---------------------------------------------------------------------------
(* The asset loaders: _load_image (services/differ.py) and the url_fetcher *)
(* of the rasterizer (services/previewer.py)                               *)

\* Line 130 of differ.py.
LoaderMatches(source, public_base_url) ==
    LET base == RStripSlash(public_base_url)
    IN  (base # <<>> /\ StartsWith(source, base \o <<"/assets">>))
        \/ Contains(source, <<"/assets", "?">>)

\* Line 30 of previewer.py.
FetcherMatches(url, public_base_url) ==
    LET base == RStripSlash(public_base_url)
    IN  StartsWith(url, base \o <<"/assets">>) \/ Contains(url, <<"/assets", "?">>)

\* Lines 131..136 of differ.py, 31..36 of previewer.py: the file the query
\* of the URL names, <<>> when a parameter is missing or empty.
AssetFilePath(url) ==
    LET qs    == UrlQuery(url)
        pid   == QueryValue(qs, "process_id")
        apath == QueryValue(qs, "asset_path")
    IN  IF pid # <<>> /\ apath # <<>>
        THEN PathJoin(PathJoin(OUTPUT_FOLDER, pid), Basename(apath))
        ELSE <<>>

\* Whether the local branch returns the file: lines 135..138 (35..45).
ReadsLocal(d, url) ==
    AssetFilePath(url) # <<>> /\ IsFile(d, AssetFilePath(url))

\* _load_image(source, public_base_url): how the image is obtained.
LoadImageHow(d, source, public_base_url) ==
    IF StartsWith(source, <<"data:">>) THEN "data"
    ELSE IF LoaderMatches(source, public_base_url) /\ ReadsLocal(d, source) THEN "local"
    ELSE "network"

\* fetcher(url): how the resource is obtained; weasyprint's default fetcher
\* decodes a data: URL itself and requests any other URL over the network.
FetcherHow(d, url, public_base_url) ==
    IF FetcherMatches(url, public_base_url) /\ ReadsLocal(d, url) THEN "local"
    ELSE IF StartsWith(url, <<"data:">>) THEN "data"
    ELSE "network"

\* Whether the process that the query of url names has expired at time t.
NamesExpired(d, url, t) ==
    \E p \in Pids : /\ QueryValue(UrlQuery(url), "process_id") = <<p>>
                    /\ is_output_expired(d, p, t)

NoLast == [op |-> "none", url |-> <<>>, base |-> <<>>, how |-> "none", expired |-> FALSE]

---------------------------------------------------------------------------
(* The specifications below share the variables; each starts the part it   *)
(* is about and leaves the other parts idle.                               *)

StoreIdle ==
    /\ now = 0
    /\ dirs = [p \in Pids |-> NoDir]
    /\ last = NoLast

DiffIdle ==
    /\ pc = "idle"
    /\ in_a = NoImage
    /\ in_b = NoImage
    /\ img_a = NoImage
    /\ img_b = NoImage
    /\ scaled_a = NoImage
    /\ scaled_b = NoImage
    /\ w = 0
    /\ h = 0
    /\ diff_blur = NoImage
    /\ diff_count = 0
    /\ score = 0
    /\ diffs = <<>>
    /\ result = "none"
    /\ ret = NoReturn

CellIdle ==
    /\ one_pc = "idle"
    /\ one_total = 0
    /\ one_diff = 0
    /\ one_pct = 0
    /\ one_listed = FALSE

NoRegion == [row |-> 0, col |-> 0, d |-> Black]
NoBlur == [hrow |-> <<>>, vcol |-> <<>>]

RegionIdle ==
    /\ region_pc = "idle"
    /\ region_in = NoRegion
    /\ region_blur = NoBlur
    /\ region_count = 0
    /\ region_score = 0
    /\ region_ret = NoReturn

NoUrlIn == [base |-> <<>>, pid |-> <<>>, name |-> <<>>]
NoUrlSeen == [loader |-> FALSE, fetcher |-> FALSE, path |-> <<>>]

UrlIdle ==
    /\ url_pc = "idle"
    /\ url_in = NoUrlIn
    /\ url_built = <<>>
    /\ url_seen = NoUrlSeen

NoDoc == [pages |-> <<>>, extract |-> <<>>, rects |-> <<>>]

ExtractIdle ==
    /\ ex_pc = "idle"
    /\ ex_doc = NoDoc
    /\ ex_page_num = 0
    /\ ex_idx = 0
    /\ img_counter = 0
    /\ ex_images = <<>>
    /\ ex_pages = <<>>
    /\ ex_written = <<>>
    /\ ex_result = "none"

NoBlock == [type |-> -1, lines |-> <<>>]

TextsIdle ==
    /\ tx_pc = "idle"
    /\ tx_block = NoBlock
    /\ tx_idx = 0
    /\ tx_texts = <<>>

RenderIdle ==
    /\ rp_pc = "idle"
    /\ rp_doc = <<>>
    /\ rp_page_num = 0
    /\ rp_saved = <<>>
    /\ preview_urls = <<>>

NoError == [type |-> "", message |-> ""]
NoPreviewIn ==
    [base |-> <<>>, pid |-> <<>>, files |-> {},
     outcome |-> [kind |-> "none", pages |-> 0, error |-> NoError]]

PreviewIdle ==
    /\ pv_pc = "idle"
    /\ pv_in = NoPreviewIn
    /\ pv_dir = [exists |-> FALSE, files |-> {}]
    /\ pv_wrote = FALSE
    /\ pv_error = NoError
    /\ pv_ret = <<>>

NoHtml == [width |-> 0, body |-> <<>>]

ModulesIdle ==
    /\ rm_pc = "idle"
    /\ rm_in = [modules |-> <<>>, page_width_px |-> 0]
    /\ rm_idx = 0
    /\ rm_rows = <<>>
    /\ rm_html = NoHtml

SweepIdle ==
    /\ sweep = <<>>
    /\ made = {}

NoRequest == [action |-> "", process_id |-> <<>>, asset_path |-> <<>>]
NoResponse == [status |-> 0, error |-> "", file |-> <<>>]

GetIdle ==
    /\ gt_pc = "idle"
    /\ gt_req = NoRequest
    /\ gt_was = [existed |-> FALSE, expired |-> FALSE]
    /\ gt_resp = NoResponse

NoPixmap == [html |-> "", dpi |-> 0]

AgainIdle ==
    /\ pa_disk = <<>>
    /\ pa_calls = <<>>

NoUpload == [present |-> FALSE, filename |-> <<>>]
NoJson == [is_json |-> FALSE, kind |-> "none", pdf_url |-> <<>>]
NoResolveRequest == [file |-> NoUpload, json |-> NoJson, form_url |-> <<>>, answer |-> "", uuid |-> ""]
NoResolved == [kind |-> "none", error |-> "", source |-> "", pdf_url |-> <<>>, pdf_path |-> <<>>, original_filename |-> <<>>, temp_paths |-> <<>>, process_id |-> ""]

ResolveIdle ==
    /\ rs_pc = "idle"
    /\ rs_req = NoResolveRequest
    /\ rs_upload = {}
    /\ rs_ret = NoResolved

NoConvertRequest == [file |-> NoUpload, dpi_ok |-> TRUE, separate |-> "", convert |-> "", strategy |-> "", uuid |-> ""]

ConvertIdle ==
    /\ cv_pc = "idle"
    /\ cv_req = NoConvertRequest
    /\ cv_upload = {}
    /\ cv_temp = {}
    /\ cv_resp = 0

EmbedIdle ==
    /\ em_pc = "idle"
    /\ em_in = [html |-> <<>>, image_urls |-> <<>>, failing |-> {}]
    /\ em_idx = 0
    /\ em_uris = <<>>
    /\ em_out = <<>>

notDiffVars == <<cellVars, storeVars, regionVars, urlVars, extractVars, textsVars, renderVars, previewVars, modulesVars, sweepVars, getVars, againVars, resolveVars, convertVars, embedVars>>
notCellVars == <<diffVars, storeVars, regionVars, urlVars, extractVars, textsVars, renderVars, previewVars, modulesVars, sweepVars, getVars, againVars, resolveVars, convertVars, embedVars>>
notStoreVars == <<diffVars, cellVars, regionVars, urlVars, extractVars, textsVars, renderVars, previewVars, modulesVars, sweepVars, getVars, againVars, resolveVars, convertVars, embedVars>>
notRegionVars == <<diffVars, cellVars, storeVars, urlVars, extractVars, textsVars, renderVars, previewVars, modulesVars, sweepVars, getVars, againVars, resolveVars, convertVars, embedVars>>
notUrlVars == <<diffVars, cellVars, storeVars, regionVars, extractVars, textsVars, renderVars, previewVars, modulesVars, sweepVars, getVars, againVars, resolveVars, convertVars, embedVars>>
notExtractVars == <<diffVars, cellVars, storeVars, regionVars, urlVars, textsVars, renderVars, previewVars, modulesVars, sweepVars, getVars, againVars, resolveVars, convertVars, embedVars>>
notTextsVars == <<diffVars, cellVars, storeVars, regionVars, urlVars, extractVars, renderVars, previewVars, modulesVars, sweepVars, getVars, againVars, resolveVars, convertVars, embedVars>>
notRenderVars == <<diffVars, cellVars, storeVars, regionVars, urlVars, extractVars, textsVars, previewVars, modulesVars, sweepVars, getVars, againVars, resolveVars, convertVars, embedVars>>
notPreviewVars == <<diffVars, cellVars, storeVars, regionVars, urlVars, extractVars, textsVars, renderVars, modulesVars, sweepVars, getVars, againVars, resolveVars, convertVars, embedVars>>
notModulesVars == <<diffVars, cellVars, storeVars, regionVars, urlVars, extractVars, textsVars, renderVars, previewVars, sweepVars, getVars, againVars, resolveVars, convertVars, embedVars>>
notSweepVars == <<diffVars, cellVars, storeVars, regionVars, urlVars, extractVars, textsVars, renderVars, previewVars, modulesVars, getVars, againVars, resolveVars, convertVars, embedVars>>
notStoreSweepVars == <<diffVars, cellVars, regionVars, urlVars, extractVars, textsVars, renderVars, previewVars, modulesVars, getVars, againVars, resolveVars, convertVars, embedVars>>
notGetVars == <<diffVars, cellVars, storeVars, regionVars, urlVars, extractVars, textsVars, renderVars, previewVars, modulesVars, sweepVars, againVars, resolveVars, convertVars, embedVars>>
notStoreGetVars == <<diffVars, cellVars, regionVars, urlVars, extractVars, textsVars, renderVars, previewVars, modulesVars, sweepVars, againVars, resolveVars, convertVars, embedVars>>
notAgainVars == <<diffVars, cellVars, storeVars, regionVars, urlVars, extractVars, textsVars, renderVars, previewVars, modulesVars, sweepVars, getVars, resolveVars, convertVars, embedVars>>
notResolveVars == <<diffVars, cellVars, storeVars, regionVars, urlVars, extractVars, textsVars, renderVars, previewVars, modulesVars, sweepVars, getVars, againVars, convertVars, embedVars>>
notConvertVars == <<diffVars, cellVars, storeVars, regionVars, urlVars, extractVars, textsVars, renderVars, previewVars, modulesVars, sweepVars, getVars, againVars, resolveVars, embedVars>>
notStoreConvertVars == <<diffVars, cellVars, regionVars, urlVars, extractVars, textsVars, renderVars, previewVars, modulesVars, sweepVars, getVars, againVars, resolveVars, embedVars>>
notEmbedVars == <<diffVars, cellVars, storeVars, regionVars, urlVars, extractVars, textsVars, renderVars, previewVars, modulesVars, sweepVars, getVars, againVars, resolveVars, convertVars>>

---------------------------------------------------------------------------
(* visual_diff, step by step, from the two images of lines 45..46 on *)

DiffInit ==
    /\ pc = "loaded"
    /\ in_a \in Inputs
    /\ in_b \in Inputs
    /\ img_a = in_a
    /\ img_b = in_b
    /\ scaled_a = NoImage
    /\ scaled_b = NoImage
    /\ w = 0
    /\ h = 0
    /\ diff_blur = NoImage
    /\ diff_count = 0
    /\ score = 0
    /\ diffs = <<>>
    /\ result = "none"
    /\ ret = NoReturn

\* The outcomes of lines 54..55 (56..57) for one image: the image itself when
\* it has the target width, else what resize returns; none when it raises.
Scaled(img, target_w) ==
    IF img.w = target_w THEN {img}
    ELSE IF ResizeRaises(target_w, ScaledHeight(img.h, img.w, target_w)) THEN {}
    ELSE ResampleOutputs(target_w, ScaledHeight(img.h, img.w, target_w))

\* Lines 51..57, both resizes succeeding.
Scale ==
    /\ pc = "loaded"
    /\ LET target_w == Min(img_a.w, img_b.w)
       IN  /\ \E a \in Scaled(img_a, target_w), b \in Scaled(img_b, target_w) :
                /\ img_a' = a
                /\ img_b' = b
                /\ scaled_a' = a
                /\ scaled_b' = b
           /\ w' = target_w
    /\ pc' = "scaled"
    /\ UNCHANGED <<in_a, in_b, h, diff_blur, diff_count, score, diffs, result, ret>>
    /\ UNCHANGED notDiffVars

\* Lines 51..57, a resize raising ValueError: the call ends.
ScaleRaises ==
    /\ pc = "loaded"
    /\ LET target_w == Min(img_a.w, img_b.w)
       IN  Scaled(img_a, target_w) = {} \/ Scaled(img_b, target_w) = {}
    /\ pc' = "done"
    /\ result' = "error"
    /\ UNCHANGED <<in_a, in_b, img_a, img_b, scaled_a, scaled_b, w, h,
                   diff_blur, diff_count, score, diffs, ret>>
    /\ UNCHANGED notDiffVars

\* Lines 59..71.
Pad ==
    /\ pc = "scaled"
    /\ LET target_h == TargetHeight(img_a.h, img_b.h)
       IN  /\ img_a' = PadToHeight(img_a, w, target_h)
           /\ img_b' = PadToHeight(img_b, w, target_h)
           /\ h' = target_h
    /\ pc' = "padded"
    /\ UNCHANGED <<in_a, in_b, scaled_a, scaled_b, w, diff_blur, diff_count,
                   score, diffs, result, ret>>
    /\ UNCHANGED notDiffVars

\* Lines 73..75.
DiffBlur ==
    /\ pc = "padded"
    /\ diff_blur' = GaussianBlur(Difference(img_a, img_b))
    /\ pc' = "blurred"
    /\ UNCHANGED <<in_a, in_b, img_a, img_b, scaled_a, scaled_b, w, h,
                   diff_count, score, diffs, result, ret>>
    /\ UNCHANGED notDiffVars

\* Lines 77..83.
Score ==
    /\ pc = "blurred"
    /\ diff_count' = CountDifferent(diff_blur)
    /\ \E up \in BOOLEAN : score' = ScoreOf(diff_count', w * h, up)
    /\ pc' = "scored"
    /\ UNCHANGED <<in_a, in_b, img_a, img_b, scaled_a, scaled_b, w, h,
                   diff_blur, diffs, result, ret>>
    /\ UNCHANGED notDiffVars

\* Lines 85..114: the loop over the cells ends and the result is returned.
Grid ==
    /\ pc = "scored"
    /\ \E up \in BOOLEAN : diffs' = GridDiffs(diff_blur, up)
    /\ pc' = "done"
    /\ result' = "ok"
    /\ ret' = [score |-> score, width |-> w, height |-> h, diffs |-> diffs']
    /\ UNCHANGED <<in_a, in_b, img_a, img_b, scaled_a, scaled_b, w, h,
                   diff_blur, diff_count, score>>
    /\ UNCHANGED notDiffVars

\* Line 99 raising ValueError on an inverted box (a Pillow that checks the
\* coordinates of crop): the call ends without a result.
GridRaises ==
    /\ pc = "scored"
    /\ SomeInverted(w, h)
    /\ pc' = "done"
    /\ result' = "error"
    /\ UNCHANGED <<in_a, in_b, img_a, img_b, scaled_a, scaled_b, w, h,
                   diff_blur, diff_count, score, diffs, ret>>
    /\ UNCHANGED notDiffVars

Init == DiffInit /\ CellIdle /\ StoreIdle /\ RegionIdle /\ UrlIdle /\ ExtractIdle /\ TextsIdle /\ RenderIdle /\ PreviewIdle /\ ModulesIdle /\ SweepIdle /\ GetIdle /\ AgainIdle /\ ResolveIdle /\ ConvertIdle /\ EmbedIdle

Next == Scale \/ ScaleRaises \/ Pad \/ DiffBlur \/ Score \/ Grid \/ GridRaises

Spec == Init /\ [][Next]_vars

---------------------------------------------------------------------------
(* Jitter: an offset of at most 5 added to every channel of every pixel,   *)
(* the sum kept within 0..255.                                             *)

JitterMax == 5
Jitters == {"plus", "minus", "checker", "mixed"}

JitterOffset(j, x, y, ch) ==
    CASE j = "plus"    -> JitterMax
      [] j = "minus"   -> -JitterMax
      [] j = "checker" -> IF (x + y) % 2 = 0 THEN JitterMax ELSE -JitterMax
      [] j = "mixed"   -> IF ch = 1 THEN JitterMax - 2
                          ELSE IF ch = 2 THEN -JitterMax ELSE 0

Clamp8(v) == Max(0, Min(255, v))

Jitter(img, j) ==
    [img EXCEPT !.px =
        [y \in 0..(img.h - 1) |-> [x \in 0..(img.w - 1) |->
            <<Clamp8(img.px[y][x][1] + JitterOffset(j, x, y, 1)),
              Clamp8(img.px[y][x][2] + JitterOffset(j, x, y, 2)),
              Clamp8(img.px[y][x][3] + JitterOffset(j, x, y, 3))>>]]]

\* The score of visual_diff(a, b) for two images of one width: lines 59..83
\* (no resize takes place).
ScoreOfCall(a, b, up) ==
    LET target_h == TargetHeight(a.h, b.h)
        pa == PadToHeight(a, a.w, target_h)
        pb == PadToHeight(b, a.w, target_h)
    IN  ScoreOf(CountDifferent(GaussianBlur(Difference(pa, pb))), a.w * target_h, up)

---------------------------------------------------------------------------
(* Claims about visual_diff, checked under Spec *)

Returned == pc = "done" /\ result = "ok"
Normalised == pc \in {"padded", "blurred", "scored"} \/ Returned

\* C1: for any image with non-zero area, visual_diff(img, img) returns
\* score 1.0 and an empty diffs list.
C1_IdenticalImagesScoreOne ==
    (pc = "done" /\ in_a = in_b /\ Area(in_a) > 0)
        => (result = "ok" /\ ret.score = 10000 /\ ret.diffs = <<>>)

\* Whether img is src at the top left of a white canvas of w x h pixels.
TopLeftOnWhite(img, src) ==
    /\ img.w = w
    /\ img.h = h
    /\ src.w = w
    /\ src.h <= h
    /\ \A p \in Pixels(w, h) :
          img.px[p[2]][p[1]] = IF p[2] < src.h THEN src.px[p[2]][p[1]] ELSE White

\* Whether sh is in_h * target_w / in_w rounded to an integer.
NearestHeight(sh, in_h, in_w, target_w) ==
    2 * Abs(sh * in_w - in_h * target_w) <= in_w

C3_ScoreFormula ==
    (Returned /\ w * h > 0) =>
        LET over == { p \in Pixels(w, h) :
                        \E ch \in 1..3 : diff_blur.px[p[2]][p[1]][ch] >= 16 }
            same == w * h - Cardinality(over)
        IN  /\ ret.score \in 0..10000
            /\ 2 * Abs(ret.score * (w * h) - 10000 * same) <= w * h

\* A canvas all of whose pixels differ by exactly 15: none is counted.
C3_Witness ==
    /\ Returned
    /\ w * h > 0
    /\ \A p \in Pixels(w, h) : MaxChannel(diff_blur.px[p[2]][p[1]]) = 15
    /\ ret.score = 10000

CellsOf(p, cw, ch) ==
    { k \in 0..(_GRID * _GRID - 1) : p \in CellPixels(Box(k \div _GRID, k % _GRID, cw, ch)) }

\* C5: the 8x8 grid is a partition of the canvas: every canvas pixel
\* belongs to exactly one cell.
C5_GridPartition ==
    Returned => \A p \in Pixels(w, h) : Cardinality(CellsOf(p, w, h)) = 1

Within(a, b, tol) ==
    /\ a.w = b.w /\ a.h = b.h
    /\ \A y \in 0..(a.h - 1), x \in 0..(a.w - 1), ch \in 1..3 :
           Abs(a.px[y][x][ch] - b.px[y][x][ch]) <= tol

---------------------------------------------------------------------------
(* One pass of the body of the grid loop (lines 100..107), on the counts   *)
(* of a cell: len(cell_data) pixels of which cell_diff are different.      *)

MaxCellPx == 300

CellInit ==
    /\ one_pc = "cropped"
    /\ one_total \in 1..MaxCellPx
    /\ one_diff \in 0..one_total
    /\ one_pct = 0
    /\ one_listed = FALSE

\* Lines 104..107.
CellCheck ==
    /\ one_pc = "cropped"
    /\ \E up \in BOOLEAN :
          /\ one_pct' = CellPct(one_diff, one_total, up)
          /\ one_listed' = CellReported(one_pct')
    /\ one_pc' = "checked"
    /\ UNCHANGED <<one_total, one_diff>>
    /\ UNCHANGED notCellVars

SpecCellInit == CellInit /\ DiffIdle /\ StoreIdle /\ RegionIdle /\ UrlIdle /\ ExtractIdle /\ TextsIdle /\ RenderIdle /\ PreviewIdle /\ ModulesIdle /\ SweepIdle /\ GetIdle /\ AgainIdle /\ ResolveIdle /\ ConvertIdle /\ EmbedIdle

SpecCellNext == CellCheck

SpecCell == SpecCellInit /\ [][SpecCellNext]_vars

\* C6: a cell is listed in diffs exactly when the fraction of different
\* pixels in it is strictly greater than 1%, for every cell size.
C6_ListedIffAboveOnePercent ==
    one_pc = "checked" => (one_listed <=> 100 * one_diff > one_total)

---------------------------------------------------------------------------
(* The asset store and the two loaders, step by step                       *)

MaxTime == 2
TtlTicks == 1

\* The values of public_base_url: without and with a trailing slash, and
\* the default '' of _load_image.
Bases == {<<"http://svc">>, <<"http://svc", "/">>, <<>>}

PreviewName == "preview.png"
RenderName == "render_p00.png"
AssetNames == {PreviewName, RenderName}

\* The URLs a loader is called with.
Urls ==
    { build_public_asset_url(<<"http://svc">>, <<p>>, <<f>>) : p \in UrlPids, f \in AssetNames }
    \cup { build_public_asset_url(<<"http://svc", "/">>, <<"p1">>, <<PreviewName>>),
           build_public_asset_url(<<>>, <<"p1">>, <<PreviewName>>),
           build_public_asset_url(<<"http://svc">>, <<"p1">>, <<"..", "/", "p2", "/", PreviewName>>),
           <<"http://svc", "/assets", "?", "process_id", "=", "p1">>,
           <<"http://svc", "/assets", "?", "asset_path", "=", PreviewName, "&", "process_id", "=", "p1">>,
           <<"http://svc", "/assets", "/", "p1", "/", PreviewName>>,
           <<"http://cdn", "/", "logo.png">>,
           build_public_asset_url(<<"http://other">>, <<"p1">>, <<PreviewName>>),
           <<"data:", "image/png;base64,", "iVBORw0KGgo=">> }

\* html_to_png(html, output_dir, public_base_url, process_id) with
\* output_dir the directory of the process; pages is len(doc).
HtmlToPng ==
    \E p \in Pids, pages \in 0..1 :
        /\ dirs' = [dirs EXCEPT ![p] =
                        [@ EXCEPT !.exists = TRUE,
                                  !.files = IF pages = 0 THEN @ ELSE @ \cup {PreviewName}]]
        /\ UNCHANGED <<now, last>>
        /\ UNCHANGED notStoreVars

\* render_page_previews(pdf_path, output_dir, public_base_url, process_id)
\* of a one-page document, in an output directory that exists.
RenderPreviews ==
    \E p \in Pids :
        /\ dirs[p].exists
        /\ dirs' = [dirs EXCEPT ![p].files = @ \cup {RenderName}]
        /\ UNCHANGED <<now, last>>
        /\ UNCHANGED notStoreVars

\* write_process_meta(output_dir, process_id, public_base_url, ttl_seconds)
WriteMeta ==
    \E p \in Pids :
        /\ dirs[p].exists
        /\ dirs' = [dirs EXCEPT ![p].expires_at = now + TtlTicks]
        /\ UNCHANGED <<now, last>>
        /\ UNCHANGED notStoreVars

\* The wall clock advances.
Tick ==
    /\ now < MaxTime
    /\ now' = now + 1
    /\ UNCHANGED <<dirs, last>>
    /\ UNCHANGED notStoreVars

\* cleanup_expired_outputs()
Cleanup ==
    /\ dirs' = [p \in Pids |-> IF is_output_expired(dirs, p, now) THEN NoDir ELSE dirs[p]]
    /\ UNCHANGED <<now, last>>
    /\ UNCHANGED notStoreVars

\* _load_image(source, public_base_url)
LoadImage ==
    \E source \in Urls, b \in Bases :
        /\ last' = [op |-> "load_image", url |-> source, base |-> b,
                    how |-> LoadImageHow(dirs, source, b),
                    expired |-> NamesExpired(dirs, source, now)]
        /\ UNCHANGED <<now, dirs>>
        /\ UNCHANGED notStoreVars

\* fetcher(url) of _make_asset_fetcher(public_base_url)
Fetch ==
    \E url \in Urls, b \in Bases :
        /\ last' = [op |-> "fetcher", url |-> url, base |-> b,
                    how |-> FetcherHow(dirs, url, b),
                    expired |-> NamesExpired(dirs, url, now)]
        /\ UNCHANGED <<now, dirs>>
        /\ UNCHANGED notStoreVars

SpecStoreInit == StoreIdle /\ DiffIdle /\ CellIdle /\ RegionIdle /\ UrlIdle /\ ExtractIdle /\ TextsIdle /\ RenderIdle /\ PreviewIdle /\ ModulesIdle /\ SweepIdle /\ GetIdle /\ AgainIdle /\ ResolveIdle /\ ConvertIdle /\ EmbedIdle
SpecStoreNext ==
    HtmlToPng \/ RenderPreviews \/ WriteMeta \/ Tick \/ Cleanup \/ LoadImage \/ Fetch
SpecStore == SpecStoreInit /\ [][SpecStoreNext]_vars

\* A URL of the service's own asset scheme:
\* <base>/assets?process_id=<id>&asset_path=<filename>.
OwnScheme(url) ==
    \E b \in Bases \ {<<>>}, p \in UrlPids, f \in AssetNames :
        url = build_public_asset_url(b, <<p>>, <<f>>)

Called == last.op \in {"load_image", "fetcher"}

\* C9: for a URL of the service's own asset scheme, neither _load_image nor
\* the fetcher issues a network request, in every state of the store: a file
\* or directory that has been removed is a not-found failure, not a request.
C9_OwnUrlNeverNetwork ==
    (Called /\ OwnScheme(last.url)) => last.how # "network"

\* C10: a URL of the own scheme is read from local storage only while the
\* process it names has not expired, also before the cleanup has deleted
\* the directory.
C10_LocalOnlyWhileNotExpired ==
    (Called /\ OwnScheme(last.url) /\ last.how = "local") => ~last.expired

\* Whether url is on the asset endpoint of the configured base URL.
OnOwnEndpoint(url, public_base_url) ==
    /\ RStripSlash(public_base_url) # <<>>
    /\ StartsWith(url, RStripSlash(public_base_url) \o <<"/assets", "?">>)

\* C11: a URL is read from local disk only if it is on the asset endpoint
\* of the configured public base URL; any other URL, also one of another
\* host with /assets? and both parameters, is not read from disk.
C11_LocalOnlyOwnEndpoint ==
    (Called /\ last.how = "local") => OnOwnEndpoint(last.url, last.base)

---------------------------------------------------------------------------
(* visual_diff on two square images of _GRID * RegionSide pixels a side    *)
(* that differ by d in every pixel of one cell of the grid and nowhere     *)
(* else.  The difference image (line 74) is d inside the cell and black    *)
(* outside; every row of it that crosses the cell is the same row, and so  *)
(* is every column.  The blur filters the rows and then the columns, so    *)
(* diff_blur is held as the one blurred row (hrow) and, for every pixel    *)
(* value t of that row, the blurred column of a column that holds t        *)
(* inside the cell (vcol[t]): diff_blur[y][x] = vcol[hrow[x]][y].          *)

RegionSide == 100
CanvasSide == _GRID * RegionSide

RegionCells == {0, 3, _GRID - 1}
RegionDiffs == { <<255, 255, 255>>, <<16, 16, 16>>, <<0, 128, 64>>, <<31, 0, 9>> }

InBand(i, k) == k * RegionSide <= i /\ i < (k + 1) * RegionSide

\* A one-row image: t across band k, black elsewhere.
BandLine(t, k) ==
    [w |-> CanvasSide, h |-> 1,
     px |-> [y \in 0..0 |-> [x \in 0..(CanvasSide - 1) |-> IF InBand(x, k) THEN t ELSE Black]]]

\* The horizontal passes of the filter over a row of the difference image
\* that crosses the cell.
BlurredRow(in) == HorizontalPasses(BandLine(in.d, in.col), BoxPasses).px[0]

\* The passes over the transposed image, for a column whose pixels are t.
BlurredColumn(t, in) == HorizontalPasses(BandLine(t, in.row), BoxPasses).px[0]

\* The pixel of diff_blur at column x, row y.
RegionPixel(blur, x, y) == blur.vcol[blur.hrow[x]][y]

RECURSIVE SumOver(_, _)
SumOver(f, dom) ==
    IF dom = {} THEN 0
    ELSE LET t == CHOOSE t \in dom : TRUE IN f[t] + SumOver(f, dom \ {t})

\* The number of different pixels of diff_blur inside a box: the columns of
\* the box that hold t in the blurred row all have the same blurred column,
\* so they have the same number of different pixels between two rows.
RegionBoxDiff(blur, box) ==
    LET held == { blur.hrow[x] : x \in box.left..(box.right - 1) }
        columns == [t \in held |->
                       Cardinality({ x \in box.left..(box.right - 1) : blur.hrow[x] = t })]
        rows == [t \in held |->
                       Cardinality({ y \in box.upper..(box.lower - 1) :
                                       IsDifferent(blur.vcol[t][y]) })]
    IN  SumOver([t \in held |-> columns[t] * rows[t]], held)

WholeCanvas == [left |-> 0, upper |-> 0, right |-> CanvasSide, lower |-> CanvasSide]

\* Lines 91..107 on diff_blur, from cell number k on.
RegionGridFrom(blur, k, up) ==
    LET Cell(n) ==
            LET row == n \div _GRID
                col == n % _GRID
                box == Box(row, col, CanvasSide, CanvasSide)
                cell_total == (box.right - box.left) * (box.lower - box.upper)
            IN  [row |-> row, col |-> col, cell_total |-> cell_total,
                 diff_pct |-> IF cell_total = 0 THEN 0
                              ELSE CellPct(RegionBoxDiff(blur, box), cell_total, up)]
        cells == [i \in 1..(_GRID * _GRID - k) |-> Cell(k + i - 1)]
        Kept(cell) == cell.cell_total # 0 /\ CellReported(cell.diff_pct)
        kept == SelectSeq(cells, Kept)
    IN  [i \in 1..Len(kept) |->
            [row |-> kept[i].row, col |-> kept[i].col, diff_pct |-> kept[i].diff_pct]]

RegionInit ==
    /\ region_pc = "loaded"
    /\ region_in \in [row : RegionCells, col : RegionCells, d : RegionDiffs]
    /\ region_blur = NoBlur
    /\ region_count = 0
    /\ region_score = 0
    /\ region_ret = NoReturn

\* Lines 74..75.
RegionDiffBlur ==
    /\ region_pc = "loaded"
    /\ LET hrow == BlurredRow(region_in)
           values == { hrow[x] : x \in 0..(CanvasSide - 1) } \cup {Black}
       IN  region_blur' = [hrow |-> hrow,
                           vcol |-> [t \in values |-> BlurredColumn(t, region_in)]]
    /\ region_pc' = "blurred"
    /\ UNCHANGED <<region_in, region_count, region_score, region_ret>>
    /\ UNCHANGED notRegionVars

\* Lines 77..83.
RegionScore ==
    /\ region_pc = "blurred"
    /\ region_count' = RegionBoxDiff(region_blur, WholeCanvas)
    /\ \E up \in BOOLEAN :
           region_score' = ScoreOf(region_count', CanvasSide * CanvasSide, up)
    /\ region_pc' = "scored"
    /\ UNCHANGED <<region_in, region_blur, region_ret>>
    /\ UNCHANGED notRegionVars

\* Lines 85..114.
RegionGrid ==
    /\ region_pc = "scored"
    /\ \E up \in BOOLEAN :
           region_ret' = [score |-> region_score, width |-> CanvasSide, height |-> CanvasSide,
                          diffs |-> RegionGridFrom(region_blur, 0, up)]
    /\ region_pc' = "done"
    /\ UNCHANGED <<region_in, region_blur, region_count, region_score>>
    /\ UNCHANGED notRegionVars

SpecRegionInit == RegionInit /\ DiffIdle /\ CellIdle /\ StoreIdle /\ UrlIdle /\ ExtractIdle /\ TextsIdle /\ RenderIdle /\ PreviewIdle /\ ModulesIdle /\ SweepIdle /\ GetIdle /\ AgainIdle /\ ResolveIdle /\ ConvertIdle /\ EmbedIdle
SpecRegionNext == RegionDiffBlur \/ RegionScore \/ RegionGrid
SpecRegion == SpecRegionInit /\ [][SpecRegionNext]_vars

RegionReturned == region_pc = "done"

\* C7: when two images of 800 x 800 pixels differ only in one cell of the
\* grid (a region of 100 x 100 pixels, every pixel of it different by more
\* than the threshold in some channel), visual_diff reports exactly that
\* cell, by its row and col, with a diff_pct of at least 0.9 (exactly 1.0
\* when the difference is 32 or more), and no other cell, although the blur
\* spreads the difference into the neighbouring cells.
C7_OnlyTheRegionCell ==
    RegionReturned =>
        /\ Len(region_ret.diffs) = 1
        /\ region_ret.diffs[1].row = region_in.row
        /\ region_ret.diffs[1].col = region_in.col
        /\ region_ret.diffs[1].diff_pct >= 9000
        /\ MaxChannel(region_in.d) >= 2 * (_THRESHOLD + 1) => region_ret.diffs[1].diff_pct = 10000

\* The region is an inner cell, the blur has made pixels of the cells next
\* to it different, and the call has returned.
C7_Witness ==
    /\ RegionReturned
    /\ region_in.row = 3 /\ region_in.col = 3
    /\ region_in.d = White
    /\ IsDifferent(RegionPixel(region_blur, 3 * RegionSide - 1, 3 * RegionSide))
    /\ IsDifferent(RegionPixel(region_blur, 3 * RegionSide - 1, 3 * RegionSide - 1))
    /\ region_count > RegionSide * RegionSide

---------------------------------------------------------------------------
(* build_public_asset_url and the two loaders on the URL it returns        *)

\* The values of public_base_url: a host, with a trailing slash, with a
\* path prefix, the default '' of _load_image, and one with a query.
BuiltBases ==
    { <<"http://svc">>, <<"http://svc", "/">>, <<"https://gw", "/", "api">>, <<>>,
      <<"https://gw", "/", "api", "?", "tenant", "=", "t1">> }

\* Process ids: two plain ones, one with a blank, one that begins with a
\* path separator.
BuiltPids == { <<"p1">>, <<"0b5e-4c1d">>, <<"a", " ", "b">>, <<"/", "srv">> }

\* File names without path separators.
BuiltNames ==
    { <<"preview.png">>, <<"render_p00.png">>, <<"p00_img001_xref7.png">>,
      <<"a", "&", "b", " ", "c.png">>, <<"what", "?", ".png">> }

UrlInit ==
    /\ url_pc = "start"
    /\ url_in \in [base : BuiltBases, pid : BuiltPids, name : BuiltNames]
    /\ url_built = <<>>
    /\ url_seen = NoUrlSeen

\* build_public_asset_url(public_base_url, process_id, asset_path)
BuildUrl ==
    /\ url_pc = "start"
    /\ url_built' = build_public_asset_url(url_in.base, url_in.pid, url_in.name)
    /\ url_pc' = "built"
    /\ UNCHANGED <<url_in, url_seen>>
    /\ UNCHANGED notUrlVars

\* Lines 129..136 of differ.py and 26..36 of previewer.py on that URL, with
\* the same public_base_url.
ResolveUrl ==
    /\ url_pc = "built"
    /\ url_seen' = [loader  |-> LoaderMatches(url_built, url_in.base),
                    fetcher |-> FetcherMatches(url_built, url_in.base),
                    path    |-> AssetFilePath(url_built)]
    /\ url_pc' = "resolved"
    /\ UNCHANGED <<url_in, url_built>>
    /\ UNCHANGED notUrlVars

SpecUrlInit == UrlInit /\ DiffIdle /\ CellIdle /\ StoreIdle /\ RegionIdle /\ ExtractIdle /\ TextsIdle /\ RenderIdle /\ PreviewIdle /\ ModulesIdle /\ SweepIdle /\ GetIdle /\ AgainIdle /\ ResolveIdle /\ ConvertIdle /\ EmbedIdle
SpecUrlNext == BuildUrl \/ ResolveUrl
SpecUrl == SpecUrlInit /\ [][SpecUrlNext]_vars

\* The URL has the form <base>/assets?process_id=..&asset_path=.., both
\* loaders take it for an own asset URL, and the file they look for is
\* OUTPUT_FOLDER/<id>/<filename>.
RoundTrip ==
    /\ StartsWith(url_built, url_in.base \o <<"/assets", "?", "process_id", "=">>)
    /\ Contains(url_built, <<"&", "asset_path", "=">>)
    /\ url_seen.loader
    /\ url_seen.fetcher
    /\ url_seen.path = OUTPUT_FOLDER \o <<"/">> \o url_in.pid \o <<"/">> \o url_in.name

\* C12: for every base URL, non-empty process id and non-empty file name
\* without path separators, the URL built is of that form, is recognized by
\* both loaders and is resolved to exactly OUTPUT_FOLDER/<id>/<filename>.
C12_RoundTripForEveryInput ==
    url_pc = "resolved" => RoundTrip

\* A base URL without query or fragment, a process id that does not begin
\* with a path separator.
PlainInput ==
    /\ ~Contains(url_in.base, <<"?">>)
    /\ ~Contains(url_in.base, <<"#">>)
    /\ url_in.pid[1] # "/"

\* C12 as amended: the round trip holds for every base URL without query or
\* fragment, every non-empty process id that does not begin with a path
\* separator and every non-empty file name without path separators.
C12_RoundTrip ==
    (url_pc = "resolved" /\ PlainInput) => RoundTrip

\* A resolved URL whose base ends in a slash and whose values had to be
\* quoted.
C12_Witness ==
    /\ url_pc = "resolved"
    /\ PlainInput
    /\ url_in.base = <<"http://svc", "/">>
    /\ url_in.pid = <<"a", " ", "b">>
    /\ url_in.name = <<"a", "&", "b", " ", "c.png">>
    /\ url_built # url_in.base \o <<"/assets", "?", "process_id", "=">> \o url_in.pid
                        \o <<"&", "asset_path", "=">> \o url_in.name

---------------------------------------------------------------------------
(* services/extractor.py: extract_pdf_content and _extract_page_images     *)

\* str(n) for n >= 0, as a sequence of digit characters.
DigitChar == <<"0", "1", "2", "3", "4", "5", "6", "7", "8", "9">>

RECURSIVE Digits(_)
Digits(n) == IF n < 10 THEN <<DigitChar[n + 1]>> ELSE Digits(n \div 10) \o <<DigitChar[(n % 10) + 1]>>

\* f"{n:0{width}d}": zeros in front up to the width, never a digit cut.
RECURSIVE ZeroPad(_, _)
ZeroPad(str, width) == IF Len(str) >= width THEN str ELSE ZeroPad(<<"0">> \o str, width)

\* str.lower() on the extensions and type tags of the model.
Lower(tok) ==
    CASE tok = "PNG"  -> "png"
      [] tok = "PDF"  -> "pdf"
      [] tok = "JPEG" -> "jpeg"
      [] tok = "IMAGE" -> "image"
      [] tok = "Banner" -> "banner"
      [] tok = "None" -> "none"
      [] OTHER        -> tok

\* A slip for line 200: the file is named after the resource alone.
ImageFilename_xref(page_num, seq, xref, ext) ==
    <<"xref">> \o Digits(xref) \o <<".", ext>>

\* Line 200: f"p{page_num:02d}_img{img_counter[0]:03d}_xref{xref}.{ext}"
ImageFilename(page_num, seq, xref, ext) ==
    <<"p">> \o ZeroPad(Digits(page_num), 2) \o <<"_img">> \o ZeroPad(Digits(seq), 3)
        \o <<"_xref">> \o Digits(xref) \o <<".", ext>>

\* round(float(v), 2) for a coordinate v >= 0 held in thousandths: the
\* result in hundredths; `up` decides a tie as the double happens to lie.
Round2(v, up) ==
    LET q == v \div 10
        r == v % 10
    IN  IF r < 5 THEN q ELSE IF r > 5 THEN q + 1 ELSE IF up THEN q + 1 ELSE q

\* Lines 215..220.
RoundedBbox(rect, up) ==
    [x0 |-> Round2(rect.x0, up), y0 |-> Round2(rect.y0, up),
     x1 |-> Round2(rect.x1, up), y1 |-> Round2(rect.y1, up)]

\* fitz.Rect(0, 0, 0, 0)
EmptyRect == [x0 |-> 0, y0 |-> 0, x1 |-> 0, y1 |-> 0]

\* Lines 207..208.
FirstRect(rects) == IF rects # <<>> THEN rects[1] ELSE EmptyRect

\* The most pages of a modelled document.
MaxPages == 2

\* The image objects of the modelled documents.
Xrefs == {5, 7}

\* Placement rectangles, coordinates in thousandths of a point.
RectA == [x0 |-> 10126, y0 |-> 20004, x1 |-> 110126, y1 |-> 80004]
RectB == [x0 |-> 10126, y0 |-> 300009, x1 |-> 110126, y1 |-> 360009]
RectC == [x0 |-> 200000, y0 |-> 20000, x1 |-> 250000, y1 |-> 70000]

\* A page as lines 45 and 192..208 read it: texts is what
\* _extract_page_texts(page) returns, images the xrefs of
\* page.get_images(full=True) in order, rects[x] what
\* page.get_image_rects(x) returns: one rectangle per placement.
PageKinds ==
    { [texts |-> <<"t0">>, images |-> <<>>, rects |-> [x \in Xrefs |-> <<>>]],
      \* one image object drawn twice
      [texts |-> <<"t1", "t2">>, images |-> <<5>>,
       rects |-> [x \in Xrefs |-> IF x = 5 THEN <<RectA, RectB>> ELSE <<>>]],
      \* two image objects drawn once each
      [texts |-> <<"t3">>, images |-> <<5, 7>>,
       rects |-> [x \in Xrefs |-> IF x = 5 THEN <<RectA>> ELSE <<RectC>>]],
      \* one image object under two resource names, drawn once by each
      [texts |-> <<>>, images |-> <<5, 5>>,
       rects |-> [x \in Xrefs |-> IF x = 5 THEN <<RectA, RectB>> ELSE <<>>]],
      \* an image object in the resources that no content stream draws
      [texts |-> <<"t4">>, images |-> <<7>>, rects |-> [x \in Xrefs |-> <<>>]] }

\* What doc.extract_image(xref) does: a dict with the image, an empty
\* dict, or an exception (a reference that is not an image, a stream
\* that cannot be decoded).
Extracted(ext, width, height) == [kind |-> "ok", ext |-> ext, width |-> width, height |-> height]
ExtractsNothing == [kind |-> "empty", ext |-> "", width |-> 0, height |-> 0]
ExtractRaises == [kind |-> "raises", ext |-> "", width |-> 0, height |-> 0]

ExtractOutcomes ==
    { [x \in Xrefs |-> IF x = 5 THEN Extracted("png", 100, 60) ELSE o] :
        o \in { Extracted("JPEG", 50, 50), ExtractsNothing, ExtractRaises } }

PageLists == UNION { [1..n -> PageKinds] : n \in 1..MaxPages }

Docs == { [pages |-> ps, extract |-> o] : ps \in PageLists, o \in ExtractOutcomes }

\* The arguments next to pdf_path.
ExtractBase == <<"http://svc">>
ExtractPid == <<"0b5e-4c1d">>
ExtractDir == PathJoin(OUTPUT_FOLDER, ExtractPid)

\* Lines 40..42.
ExtractInit ==
    /\ ex_pc = "page"
    /\ ex_doc \in Docs
    /\ ex_page_num = 0
    /\ ex_idx = 1
    /\ img_counter = 0
    /\ ex_images = <<>>
    /\ ex_pages = <<>>
    /\ ex_written = <<>>
    /\ ex_result = "none"

\* page and img of the loops of lines 44 and 192.
CurrentPage == ex_doc.pages[ex_page_num + 1]
CurrentXref == CurrentPage.images[ex_idx]

InImageLoop ==
    /\ ex_pc = "page"
    /\ ex_page_num < Len(ex_doc.pages)
    /\ ex_idx <= Len(CurrentPage.images)

\* Lines 212..223.
ImageEntry(filename, rect, extracted, up) ==
    [url |-> build_public_asset_url(ExtractBase, ExtractPid, filename),
     filename |-> filename,
     bbox |-> RoundedBbox(rect, up),
     width |-> extracted.width,
     height |-> extracted.height]

\* Lines 192..223, one turn of the loop for an image that is extracted.
ExtractImage ==
    /\ InImageLoop
    /\ ex_doc.extract[CurrentXref].kind = "ok"
    /\ \E up \in BOOLEAN :
         LET extracted == ex_doc.extract[CurrentXref]
             ext == Lower(extracted.ext)
             filename == ImageFilename(ex_page_num, img_counter + 1, CurrentXref, ext)
             rect == FirstRect(CurrentPage.rects[CurrentXref])
         IN  /\ img_counter' = img_counter + 1
             /\ ex_written' = Append(ex_written, PathJoin(ExtractDir, filename))
             /\ ex_images' = Append(ex_images, ImageEntry(filename, rect, extracted, up))
    /\ ex_idx' = ex_idx + 1
    /\ UNCHANGED <<ex_pc, ex_doc, ex_page_num, ex_pages, ex_result>>
    /\ UNCHANGED notExtractVars

\* Lines 194..196: extract_image returned nothing.
SkipImage ==
    /\ InImageLoop
    /\ ex_doc.extract[CurrentXref].kind = "empty"
    /\ ex_idx' = ex_idx + 1
    /\ UNCHANGED <<ex_pc, ex_doc, ex_page_num, img_counter, ex_images, ex_pages,
                   ex_written, ex_result>>
    /\ UNCHANGED notExtractVars

\* Line 194 raises: nothing in _extract_page_images or in
\* extract_pdf_content catches, the call ends with the exception.
ExtractImageRaises ==
    /\ InImageLoop
    /\ ex_doc.extract[CurrentXref].kind = "raises"
    /\ ex_pc' = "done"
    /\ ex_result' = "error"
    /\ UNCHANGED <<ex_doc, ex_page_num, ex_idx, img_counter, ex_images, ex_pages, ex_written>>
    /\ UNCHANGED notExtractVars

\* Lines 225 and 49..55: the page is finished and appended.
PageDone ==
    /\ ex_pc = "page"
    /\ ex_page_num < Len(ex_doc.pages)
    /\ ex_idx > Len(CurrentPage.images)
    /\ ex_pages' = Append(ex_pages, [page_num |-> ex_page_num,
                                     texts |-> CurrentPage.texts,
                                     images |-> ex_images])
    /\ ex_page_num' = ex_page_num + 1
    /\ ex_idx' = 1
    /\ ex_images' = <<>>
    /\ UNCHANGED <<ex_pc, ex_doc, img_counter, ex_written, ex_result>>
    /\ UNCHANGED notExtractVars

\* Lines 57..62.
ReturnContent ==
    /\ ex_pc = "page"
    /\ ex_page_num = Len(ex_doc.pages)
    /\ ex_pc' = "done"
    /\ ex_result' = "ok"
    /\ UNCHANGED <<ex_doc, ex_page_num, ex_idx, img_counter, ex_images, ex_pages, ex_written>>
    /\ UNCHANGED notExtractVars

SpecExtractInit == ExtractInit /\ DiffIdle /\ CellIdle /\ StoreIdle /\ RegionIdle /\ UrlIdle /\ TextsIdle /\ RenderIdle /\ PreviewIdle /\ ModulesIdle /\ SweepIdle /\ GetIdle /\ AgainIdle /\ ResolveIdle /\ ConvertIdle /\ EmbedIdle

SpecExtractNext == ExtractImage \/ SkipImage \/ ExtractImageRaises \/ PageDone \/ ReturnContent

SpecExtract == SpecExtractInit /\ [][SpecExtractNext]_vars

\* The entries of every page returned or being built, in order.
RECURSIVE Flatten(_)
Flatten(lists) == IF lists = <<>> THEN <<>> ELSE Head(lists) \o Flatten(Tail(lists))

AllEntries == Flatten([i \in 1..Len(ex_pages) |-> ex_pages[i].images]) \o ex_images

NoDuplicates(list) == \A i, j \in 1..Len(list) : list[i] = list[j] => i = j

\* The placements on page i (from 1) of the images that can be extracted.
PlacementsOn(i) ==
    LET page == ex_doc.pages[i]
    IN  { <<x, k>> : x \in { y \in Xrefs : /\ \E n \in 1..Len(page.images) : page.images[n] = y
                                           /\ ex_doc.extract[y].kind = "ok" },
                     k \in 1..2 } \cap
        { <<x, k>> \in Xrefs \X (1..2) : k <= Len(page.rects[x]) }

\* C13: when the extraction returns, every page carries one image entry
\* per placement rectangle of its extractable images: as many entries as
\* placements, and for each placement an entry with that placement's bbox
\* (an image placed twice gives two entries, one per rectangle).
C13_EntryPerPlacement ==
    ex_result = "ok" =>
        \A i \in 1..Len(ex_pages) :
            /\ Len(ex_pages[i].images) = Cardinality(PlacementsOn(i))
            /\ \A pl \in PlacementsOn(i) :
                 \E n \in 1..Len(ex_pages[i].images) : \E up \in BOOLEAN :
                     ex_pages[i].images[n].bbox =
                         RoundedBbox(ex_doc.pages[i].rects[pl[1]][pl[2]], up)

\* C14: the call never ends with an exception because of an image that
\* cannot be extracted: it returns, with every page, every page's text
\* lines, and an entry for every image that can be extracted.
C14_BadImageOnlySkipped ==
    ex_pc = "done" =>
        /\ ex_result = "ok"
        /\ Len(ex_pages) = Len(ex_doc.pages)
        /\ \A i \in 1..Len(ex_pages) :
             /\ ex_pages[i].texts = ex_doc.pages[i].texts
             /\ \A n \in 1..Len(ex_doc.pages[i].images) :
                  ex_doc.extract[ex_doc.pages[i].images[n]].kind = "ok"
                      => \E e \in 1..Len(ex_pages[i].images) :
                            ex_pages[i].images[e].width
                                = ex_doc.extract[ex_doc.pages[i].images[n]].width

\* C15: at every moment of one extraction no two image entries of any
\* pages share a filename, no path was written twice, and every entry
\* names a file that was written.
C15_FilenamesUnique ==
    /\ NoDuplicates([n \in 1..Len(AllEntries) |-> AllEntries[n].filename])
    /\ NoDuplicates(ex_written)
    /\ \A n \in 1..Len(AllEntries) :
         \E k \in 1..Len(ex_written) :
             ex_written[k] = PathJoin(ExtractDir, AllEntries[n].filename)

\* The same image object extracted on two pages and twice on one page.
C15_Witness ==
    /\ ex_result = "ok"
    /\ \E i, j \in 1..Len(ex_pages) :
         /\ i # j
         /\ ex_doc.pages[i].images = <<5, 5>>
         /\ ex_doc.pages[j].images = <<5>>
         /\ Len(ex_pages[i].images) = 2
         /\ Len(ex_pages[j].images) = 1

---------------------------------------------------------------------------
(* services/extractor.py: _extract_page_texts                              *)

\* str.strip() on a text held as a sequence of tokens, " " the blank.
RECURSIVE LStrip(_)
LStrip(str) == IF str # <<>> /\ Head(str) = " " THEN LStrip(Tail(str)) ELSE str

RECURSIVE RStrip(_)
RStrip(str) ==
    IF str # <<>> /\ str[Len(str)] = " " THEN RStrip(SubSeq(str, 1, Len(str) - 1)) ELSE str

Strip(str) == LStrip(RStrip(str))

\* ' '.join(parts)
RECURSIVE JoinBlank(_)
JoinBlank(parts) ==
    IF parts = <<>> THEN <<>>
    ELSE IF Len(parts) = 1 THEN parts[1]
    ELSE parts[1] \o <<" ">> \o JoinBlank(Tail(parts))

\* Lines 131..132.
LineContent(spans) ==
    LET parts == [i \in 1..Len(spans) |-> spans[i].text]
    IN  Strip(JoinBlank(SelectSeq(parts, LAMBDA p : Strip(p) # <<>>)))

\* A slip for line 144: the attributes of the first span, blank or not.
PrimarySpan_first(spans) == spans[1]

\* Line 144: next((s for s in spans if s.get('text', '').strip()), spans[0])
PrimarySpan(spans) ==
    LET filled == SelectSeq(spans, LAMBDA s : Strip(s.text) # <<>>)
    IN  IF filled # <<>> THEN filled[1] ELSE spans[1]

\* '{:02x}'.format(n) for 0 <= n <= 255
HexChar == <<"0", "1", "2", "3", "4", "5", "6", "7", "8", "9", "a", "b", "c", "d", "e", "f">>
Hex2(n) == <<HexChar[(n \div 16) + 1], HexChar[(n % 16) + 1]>>

\* Lines 146..150.
ColorGuess(color_int) ==
    <<"#">> \o Hex2((color_int \div 65536) % 256)
            \o Hex2((color_int \div 256) % 256)
            \o Hex2(color_int % 256)

\* Lines 137..141 and 154..159: the box around all spans of the line.
LineBbox(spans, up) ==
    LET n == 1..Len(spans)
    IN  [x0 |-> Round2(CHOOSE v \in { spans[i].bbox.x0 : i \in n } :
                          \A i \in n : v <= spans[i].bbox.x0, up),
         y0 |-> Round2(CHOOSE v \in { spans[i].bbox.y0 : i \in n } :
                          \A i \in n : v <= spans[i].bbox.y0, up),
         x1 |-> Round2(CHOOSE v \in { spans[i].bbox.x1 : i \in n } :
                          \A i \in n : v >= spans[i].bbox.x1, up),
         y1 |-> Round2(CHOOSE v \in { spans[i].bbox.y1 : i \in n } :
                          \A i \in n : v >= spans[i].bbox.y1, up)]

\* Lines 152..163.
TextEntry(spans, up) ==
    LET primary == PrimarySpan(spans)
    IN  [content |-> LineContent(spans),
         bbox |-> LineBbox(spans, up),
         font_size |-> Round2(primary.size, up),
         font |-> primary.font,
         color_guess |-> ColorGuess(primary.color)]

\* The most spans of a modelled line.
MaxSpans == 3

\* Spans as get_text('dict') gives them: size and bbox in thousandths of
\* a point, color the sRGB integer.
SpanKinds ==
    { [text |-> <<"Hola">>, size |-> 12000, font |-> "Helvetica", color |-> 16711680,
       bbox |-> [x0 |-> 72000, y0 |-> 100000, x1 |-> 98004, y1 |-> 112000]],
      [text |-> <<" ">>, size |-> 9346, font |-> "Symbol", color |-> 255,
       bbox |-> [x0 |-> 60000, y0 |-> 99000, x1 |-> 72000, y1 |-> 110000]],
      [text |-> <<>>, size |-> 8000, font |-> "Courier", color |-> 0,
       bbox |-> [x0 |-> 98004, y0 |-> 100000, x1 |-> 98004, y1 |-> 113377]],
      [text |-> <<" ", "mundo", " ">>, size |-> 10125, font |-> "Times-Bold", color |-> 658188,
       bbox |-> [x0 |-> 98004, y0 |-> 101000, x1 |-> 140126, y1 |-> 111000]] }

TextLines == UNION { [1..n -> SpanKinds] : n \in 0..MaxSpans }

\* The spans of a line that may follow the first line of a block.
SecondLines ==
    { <<>>, <<CHOOSE s \in SpanKinds : s.font = "Symbol",
              CHOOSE s \in SpanKinds : s.font = "Helvetica">> }

\* Blocks: type 0 is text, 1 an image block.
Blocks ==
    { [type |-> t, lines |-> ls] :
        t \in {0, 1},
        ls \in { <<[spans |-> l]>> : l \in TextLines }
                 \cup { <<[spans |-> l], [spans |-> m]>> : l \in TextLines, m \in SecondLines } }

\* Lines 119..122.
TextsInit ==
    /\ tx_pc = "block"
    /\ tx_block \in Blocks
    /\ tx_idx = 1
    /\ tx_texts = <<>>

\* Lines 123..124.
SkipBlock ==
    /\ tx_pc = "block"
    /\ tx_block.type # 0
    /\ tx_pc' = "done"
    /\ UNCHANGED <<tx_block, tx_idx, tx_texts>>
    /\ UNCHANGED notTextsVars

InLineLoop ==
    /\ tx_pc = "block"
    /\ tx_block.type = 0
    /\ tx_idx <= Len(tx_block.lines)

CurrentSpans == tx_block.lines[tx_idx].spans

\* Lines 126..134: a line without spans or without content.
SkipLine ==
    /\ InLineLoop
    /\ \/ CurrentSpans = <<>>
       \/ LineContent(CurrentSpans) = <<>>
    /\ tx_idx' = tx_idx + 1
    /\ UNCHANGED <<tx_pc, tx_block, tx_texts>>
    /\ UNCHANGED notTextsVars

\* Lines 126..163.
EmitLine ==
    /\ InLineLoop
    /\ CurrentSpans # <<>>
    /\ LineContent(CurrentSpans) # <<>>
    /\ \E up \in BOOLEAN :
         tx_texts' = Append(tx_texts, [line |-> tx_idx, entry |-> TextEntry(CurrentSpans, up)])
    /\ tx_idx' = tx_idx + 1
    /\ UNCHANGED <<tx_pc, tx_block>>
    /\ UNCHANGED notTextsVars

\* Line 165.
ReturnTexts ==
    /\ tx_pc = "block"
    /\ tx_block.type = 0
    /\ tx_idx > Len(tx_block.lines)
    /\ tx_pc' = "done"
    /\ UNCHANGED <<tx_block, tx_idx, tx_texts>>
    /\ UNCHANGED notTextsVars

SpecTextsInit == TextsInit /\ DiffIdle /\ CellIdle /\ StoreIdle /\ RegionIdle /\ UrlIdle /\ ExtractIdle /\ RenderIdle /\ PreviewIdle /\ ModulesIdle /\ SweepIdle /\ GetIdle /\ AgainIdle /\ ResolveIdle /\ ConvertIdle /\ EmbedIdle

SpecTextsNext == SkipBlock \/ SkipLine \/ EmitLine \/ ReturnTexts

SpecTexts == SpecTextsInit /\ [][SpecTextsNext]_vars

\* The value of a '#rrggbb' string.
HexValue(ch) == CHOOSE v \in 0..15 : HexChar[v + 1] = ch

RgbValue(str) ==
    ((HexValue(str[2]) * 16 + HexValue(str[3])) * 256
        + HexValue(str[4]) * 16 + HexValue(str[5])) * 256
        + HexValue(str[6]) * 16 + HexValue(str[7])

Blank(span) == \A i \in 1..Len(span.text) : span.text[i] = " "

\* C16: every emitted text line takes font_size, font and color_guess
\* from the first span of its line, in source order, whose text is not
\* blank (every span before it is blank), and color_guess is "#" and six
\* hex digits whose value is that span's 24-bit color.
C16_AttributesOfFirstFilledSpan ==
    \A n \in 1..Len(tx_texts) :
        LET spans == tx_block.lines[tx_texts[n].line].spans
            entry == tx_texts[n].entry
        IN  \E k \in 1..Len(spans) :
              /\ ~Blank(spans[k])
              /\ \A j \in 1..(k - 1) : Blank(spans[j])
              /\ entry.font = spans[k].font
              /\ \E up \in BOOLEAN : entry.font_size = Round2(spans[k].size, up)
              /\ Len(entry.color_guess) = 7
              /\ entry.color_guess[1] = "#"
              /\ RgbValue(entry.color_guess) = spans[k].color % 16777216

\* A line was emitted whose first span is blank and whose attributes
\* differ from those of the span that gave them.
C16_Witness ==
    \E n \in 1..Len(tx_texts) :
        LET spans == tx_block.lines[tx_texts[n].line].spans
        IN  /\ Len(spans) >= 2
            /\ Blank(spans[1])
            /\ tx_texts[n].entry.font # spans[1].font
            /\ tx_texts[n].entry.color_guess # ColorGuess(spans[1].color)

---------------------------------------------------------------------------
(* services/extractor.py: render_page_previews                             *)

_RENDER_MAX_DIM == 4000

\* pix.width and pix.height of the modelled renders.
PixSizes == {1, 3, 1240, 1754, 4000, 4001, 4210, 4512, 8000, 12000, 40000}

\* Line 88 divides and lines 89..90 multiply in IEEE doubles. For dim
\* below the longer side the exact product dim * 4000 / longest is either
\* no integer, and then far from one, or an integer that the double
\* product may miss from below. These are the sizes of PixSizes for
\* which it does (4210 * (4000 / 4210) is 3999.9999999999995).
FallsShort == { <<4210, 4210>>, <<4512, 4512>> }

\* A slip for lines 88..90: each side capped on its own.
ScaledDim_own(dim, width, height) == Min(dim, _RENDER_MAX_DIM)

\* Lines 88..90: max(1, int(dim * scale)) with
\* scale = min(_RENDER_MAX_DIM / width, _RENDER_MAX_DIM / height).
ScaledDim(dim, width, height) ==
    LET longest == Max(width, height)
        exact == (dim * _RENDER_MAX_DIM) \div longest
        product == IF <<dim, longest>> \in FallsShort THEN exact - 1 ELSE exact
    IN  Max(1, product)

\* Lines 84 and 97: f"render_p{page_num:02d}.png"
RenderFilename(page_num) == <<"render_p">> \o ZeroPad(Digits(page_num), 2) \o <<".png">>

\* The renders of a document, page by page.
RenderDocs ==
    { <<[width |-> a, height |-> b]>> : a \in PixSizes, b \in PixSizes }
      \cup { <<[width |-> a, height |-> 1754], [width |-> 8000, height |-> b]>> :
               a \in PixSizes, b \in {3, 12000} }

\* Lines 78..80.
RenderInit ==
    /\ rp_pc = "page"
    /\ rp_doc \in RenderDocs
    /\ rp_page_num = 0
    /\ rp_saved = <<>>
    /\ preview_urls = <<>>

Pix == rp_doc[rp_page_num + 1]

OverCap(pix) == pix.width > _RENDER_MAX_DIM \/ pix.height > _RENDER_MAX_DIM

\* The end of a turn of the loop, lines 97..98.
SavedAs(width, height) ==
    /\ rp_saved' = Append(rp_saved, [path |-> PathJoin(ExtractDir, RenderFilename(rp_page_num)),
                                     width |-> width, height |-> height])
    /\ preview_urls' = Append(preview_urls,
           build_public_asset_url(ExtractBase, ExtractPid, RenderFilename(rp_page_num)))
    /\ rp_page_num' = rp_page_num + 1
    /\ UNCHANGED <<rp_pc, rp_doc>>
    /\ UNCHANGED notRenderVars

\* Lines 83..93 and 97..98: the render is over the cap.
SaveResized ==
    /\ rp_pc = "page"
    /\ rp_page_num < Len(rp_doc)
    /\ OverCap(Pix)
    /\ SavedAs(ScaledDim(Pix.width, Pix.width, Pix.height),
               ScaledDim(Pix.height, Pix.width, Pix.height))

\* Lines 83..87 and 94..98: the render is within the cap.
SaveNative ==
    /\ rp_pc = "page"
    /\ rp_page_num < Len(rp_doc)
    /\ ~OverCap(Pix)
    /\ SavedAs(Pix.width, Pix.height)

\* Lines 100..101.
ReturnPreviews ==
    /\ rp_pc = "page"
    /\ rp_page_num = Len(rp_doc)
    /\ rp_pc' = "done"
    /\ UNCHANGED <<rp_doc, rp_page_num, rp_saved, preview_urls>>
    /\ UNCHANGED notRenderVars

SpecRenderInit == RenderInit /\ DiffIdle /\ CellIdle /\ StoreIdle /\ RegionIdle /\ UrlIdle /\ ExtractIdle /\ TextsIdle /\ PreviewIdle /\ ModulesIdle /\ SweepIdle /\ GetIdle /\ AgainIdle /\ ResolveIdle /\ ConvertIdle /\ EmbedIdle

SpecRenderNext == SaveResized \/ SaveNative \/ ReturnPreviews

SpecRender == SpecRenderInit /\ [][SpecRenderNext]_vars

\* got is dim scaled by 4000 / longest, to the pixel: it is within one
\* pixel of the exact value dim * 4000 / longest.
ScaledToThePixel(got, dim, longest) ==
    /\ (got - 1) * longest <= dim * 4000
    /\ dim * 4000 <= (got + 1) * longest

\* C17: every saved preview is between 1 and 4000 pixels wide and high;
\* a render within the cap is saved at its native size, and a render over
\* the cap in either dimension is saved with both dimensions scaled by
\* the one factor 4000 / (longer side), to the pixel.
C17_PreviewWithinCap ==
    \A n \in 1..Len(rp_saved) :
        LET pix == rp_doc[n]
            out == rp_saved[n]
            longest == IF pix.width >= pix.height THEN pix.width ELSE pix.height
        IN  /\ 1 <= out.width /\ out.width <= 4000
            /\ 1 <= out.height /\ out.height <= 4000
            /\ (pix.width <= 4000 /\ pix.height <= 4000)
                  => (out.width = pix.width /\ out.height = pix.height)
            /\ (pix.width > 4000 \/ pix.height > 4000)
                  => /\ ScaledToThePixel(out.width, pix.width, longest)
                     /\ ScaledToThePixel(out.height, pix.height, longest)

\* A render over the cap in one dimension only was saved smaller in both,
\* and another within the cap was saved as it was.
C17_Witness ==
    /\ rp_pc = "done"
    /\ Len(rp_saved) = 2
    /\ rp_doc[1].width = 4001 /\ rp_doc[1].height = 1754
    /\ rp_saved[1].width = 4000 /\ rp_saved[1].height < 1754
    /\ rp_doc[2].width = 8000 /\ rp_doc[2].height = 3
    /\ rp_saved[2].width = 4000 /\ rp_saved[2].height = 1

---------------------------------------------------------------------------
(* services/previewer.py: html_to_png                                      *)

\* Exceptions that leave weasyprint (lines 77..79) unchanged: a failed
\* fetch, a failed layout, and a ValueError of the library's own.
LibraryErrors ==
    { [type |-> "URLFetchingError", message |-> "fetch failed"],
      [type |-> "LayoutError", message |-> "layout failed"],
      [type |-> "ValueError", message |-> "invalid value"] }

\* Line 85 (the message without its accent).
EmptyPdfError == [type |-> "ValueError", message |-> "weasyprint produjo un PDF vacio"]

\* What lines 77..82 give: a document of some pages, or an exception.
PdfOutcomes ==
    { [kind |-> "pdf", pages |-> n, error |-> NoError] : n \in 0..2 }
        \cup { [kind |-> "raises", pages |-> 0, error |-> e] : e \in LibraryErrors }

\* A slip for line 83: the page count is not looked at.
EmptyDocument_never(pages) == FALSE

\* Line 83: len(doc) == 0
EmptyDocument(pages) == pages = 0

\* Lines 52..59, and output_dir as an earlier request left it.
PreviewInit ==
    /\ pv_pc = "makedirs"
    /\ pv_dir \in { [exists |-> FALSE, files |-> {}],
                    [exists |-> TRUE, files |-> {}],
                    [exists |-> TRUE, files |-> {RenderName}],
                    [exists |-> TRUE, files |-> {RenderName, PreviewName}] }
    /\ pv_in \in { [base |-> b, pid |-> p, files |-> pv_dir.files, outcome |-> o] :
                     b \in BuiltBases, p \in BuiltPids, o \in PdfOutcomes }
    /\ pv_wrote = FALSE
    /\ pv_error = NoError
    /\ pv_ret = <<>>

\* Lines 66..74.
MakeDirs ==
    /\ pv_pc = "makedirs"
    /\ pv_dir' = [pv_dir EXCEPT !.exists = TRUE]
    /\ pv_pc' = "write_pdf"
    /\ UNCHANGED <<pv_in, pv_wrote, pv_error, pv_ret>>
    /\ UNCHANGED notPreviewVars

\* Lines 77..82: the PDF is made and opened.
WritePdf ==
    /\ pv_pc = "write_pdf"
    /\ pv_in.outcome.kind = "pdf"
    /\ pv_pc' = "opened"
    /\ UNCHANGED <<pv_in, pv_dir, pv_wrote, pv_error, pv_ret>>
    /\ UNCHANGED notPreviewVars

\* Lines 77..79 raise.
WritePdfRaises ==
    /\ pv_pc = "write_pdf"
    /\ pv_in.outcome.kind = "raises"
    /\ pv_error' = pv_in.outcome.error
    /\ pv_pc' = "done"
    /\ UNCHANGED <<pv_in, pv_dir, pv_wrote, pv_ret>>
    /\ UNCHANGED notPreviewVars

\* Lines 83..85.
RaiseEmptyPdf ==
    /\ pv_pc = "opened"
    /\ EmptyDocument(pv_in.outcome.pages)
    /\ pv_error' = EmptyPdfError
    /\ pv_pc' = "done"
    /\ UNCHANGED <<pv_in, pv_dir, pv_wrote, pv_ret>>
    /\ UNCHANGED notPreviewVars

\* Lines 87..92.
SavePreview ==
    /\ pv_pc = "opened"
    /\ ~EmptyDocument(pv_in.outcome.pages)
    /\ pv_dir' = [pv_dir EXCEPT !.files = @ \cup {PreviewName}]
    /\ pv_wrote' = TRUE
    /\ pv_ret' = build_public_asset_url(pv_in.base, pv_in.pid, <<PreviewName>>)
    /\ pv_pc' = "done"
    /\ UNCHANGED <<pv_in, pv_error>>
    /\ UNCHANGED notPreviewVars

SpecPreviewInit == PreviewInit /\ DiffIdle /\ CellIdle /\ StoreIdle /\ RegionIdle /\ UrlIdle /\ ExtractIdle /\ TextsIdle /\ RenderIdle /\ ModulesIdle /\ SweepIdle /\ GetIdle /\ AgainIdle /\ ResolveIdle /\ ConvertIdle /\ EmbedIdle

SpecPreviewNext == MakeDirs \/ WritePdf \/ WritePdfRaises \/ RaiseEmptyPdf \/ SavePreview

SpecPreview == SpecPreviewInit /\ [][SpecPreviewNext]_vars

ZeroPages == pv_in.outcome.kind = "pdf" /\ pv_in.outcome.pages = 0

\* C18: a call whose intermediate document has zero pages ends with an
\* error that is none of the errors of a failed layout or fetch, has
\* written no preview image and returns no URL.
C18_ZeroPagesIsItsOwnError ==
    (pv_pc = "done" /\ ZeroPages) =>
        /\ pv_error # NoError
        /\ pv_error \notin { [type |-> "URLFetchingError", message |-> "fetch failed"],
                             [type |-> "LayoutError", message |-> "layout failed"],
                             [type |-> "ValueError", message |-> "invalid value"] }
        /\ ~pv_wrote
        /\ pv_dir.files = pv_in.files
        /\ pv_ret = <<>>

\* A call for a zero-page document has ended, in a directory it created.
C18_Witness ==
    /\ pv_pc = "done"
    /\ ZeroPages
    /\ pv_dir.exists
    /\ pv_error.type = "ValueError"

---------------------------------------------------------------------------
(* services/renderer.py: render_modules_to_html, _render_module            *)

_EMAIL_WIDTH == 600

\* A key the dict does not have, and the value None.
Missing == "<missing>"
None == "<None>"

\* dict.get(key) and dict.get(key, default) on a field of the model.
Get(value) == IF value = Missing THEN None ELSE value
GetOr(value, default) == IF value = Missing THEN default ELSE value

\* a or b
Falsy(value) == value \in {None, ""}
Or(a, b) == IF Falsy(a) THEN b ELSE a

\* str(value)
Str(value) == IF value = None THEN "None" ELSE value

\* str.upper() on the module ids of the model.
Upper(tok) ==
    CASE tok = "ph01" -> "PH01"
      [] tok = "zz99" -> "ZZ99"
      [] OTHER        -> tok

\* The keys of dispatch_by_id (lines 98..108) and dispatch_by_type
\* (lines 114..123).
ModuleIds == {"PH01", "BP01", "HB03", "TM01", "HB08", "TM04", "SP01", "FM03", "FM04"}
ModuleTypes == {"image", "text", "paragraph", "heading", "divider", "spacer", "row", "raw_html"}

\* A slip for line 124: a tag without a renderer is rendered as text.
TypeRenderer_text(t) ==
    IF t \in ModuleTypes /\ t # "paragraph" THEN t ELSE "text"

\* Lines 114..124: dispatch_by_type.get(t, _render_raw), by the name of
\* the renderer.
TypeRenderer(t) ==
    IF t = "paragraph" THEN "text"
    ELSE IF t \in ModuleTypes THEN t
    ELSE "raw_html"

\* Lines 97..113: the renderer _render_module picks.
RendererOf(module) ==
    LET module_id == Upper(Str(Or(Get(module.module_id), "")))
        t == Lower(Str(GetOr(module.type, "raw_html")))
    IN  IF module_id \in ModuleIds THEN module_id ELSE TypeRenderer(t)

\* Lines 551..553.
_render_raw(m) ==
    <<"<tr><td>", Or(Or(Get(m.html), Get(m.content)), ""), "</td></tr>">>

\* '\n'.join(rows)
RECURSIVE JoinLines(_)
JoinLines(rows) ==
    IF rows = <<>> THEN <<>>
    ELSE IF Len(rows) = 1 THEN rows[1]
    ELSE rows[1] \o <<"\n">> \o JoinLines(Tail(rows))

\* The row of a renderer other than _render_raw and _render_row: its
\* markup is not modelled, only which renderer made it, of which module
\* and at which width.
RenderedBy(fn, m, width) ==
    <<"<tr ", fn, Str(Get(m.html)), Str(Get(m.content))>> \o Digits(width) \o <<">">>

\* Lines 96..125 for a module that is not a row.
RenderLeaf(m, width) ==
    IF RendererOf(m) = "raw_html" THEN _render_raw(m)
    ELSE RenderedBy(RendererOf(m), m, width)

\* Lines 556..588: the cells of the columns, each with the rows of its
\* modules (the modules of a column of the model are not rows).
RECURSIVE ColumnCells(_, _, _)
ColumnCells(columns, n, width) ==
    IF columns = <<>> THEN <<>>
    ELSE LET w_pct == 100 \div n
             col_w == (width * w_pct) \div 100
             inner == JoinLines([i \in 1..Len(columns[1]) |-> RenderLeaf(columns[1][i], col_w)])
         IN  <<"<td ">> \o Digits(col_w) \o <<">">> \o inner \o <<"</td>">>
                 \o ColumnCells(Tail(columns), n, width)

_render_row(m, width) ==
    IF m.columns = <<>> THEN <<>>
    ELSE <<"<tr><td><table><tr>">> \o ColumnCells(m.columns, Len(m.columns), width)
             \o <<"</tr></table></td></tr>">>

\* Lines 96..125.
_render_module(module, width) ==
    IF RendererOf(module) = "row" THEN _render_row(module, width)
    ELSE RenderLeaf(module, width)

\* Line 28.
EmailWidth(page_width_px) == IF page_width_px = 0 THEN _EMAIL_WIDTH ELSE page_width_px

\* Lines 37..88: the shell around the rows.
_email_shell(body, width) == [width |-> width, body |-> body]

\* The most modules of a modelled list.
MaxModules == 2

Leaf(module_id, type, html, content) ==
    [module_id |-> module_id, type |-> type, html |-> html, content |-> content, columns |-> <<>>]

\* Modules without a renderer of their own ...
UnknownLeaves ==
    { Leaf(Missing, "Banner", "<b>x</b>", Missing),
      Leaf("zz99", "carousel", "", "<i>c</i>"),
      Leaf(None, None, Missing, Missing) }

\* ... and modules with one: by type in any case, by id whatever the type.
KnownLeaves ==
    { Leaf(Missing, "IMAGE", Missing, "logo"),
      Leaf("ph01", "carousel", Missing, "pre"),
      Leaf(Missing, "paragraph", Missing, "p"),
      Leaf(Missing, Missing, "<p>r</p>", Missing) }

RowModules ==
    { [module_id |-> Missing, type |-> "row", html |-> Missing, content |-> Missing,
       columns |-> cs] :
        cs \in { <<>>,
                 << <<Leaf(Missing, "Banner", "<b>x</b>", Missing)>>,
                    <<Leaf(Missing, "paragraph", Missing, "p"), Leaf(None, None, Missing, Missing)>>,
                    <<>> >> } }

ModuleKinds == UnknownLeaves \cup KnownLeaves \cup RowModules

ModuleLists == UNION { [1..n -> ModuleKinds] : n \in 0..MaxModules }

\* Lines 26..28.
ModulesInit ==
    /\ rm_pc = "rows"
    /\ rm_in \in { [modules |-> ms, page_width_px |-> px] :
                     ms \in ModuleLists, px \in {0, 320, 600} }
    /\ rm_idx = 1
    /\ rm_rows = <<>>
    /\ rm_html = NoHtml

\* Line 29: one module of the generator.
RenderModule ==
    /\ rm_pc = "rows"
    /\ rm_idx <= Len(rm_in.modules)
    /\ rm_rows' = Append(rm_rows,
                         _render_module(rm_in.modules[rm_idx], EmailWidth(rm_in.page_width_px)))
    /\ rm_idx' = rm_idx + 1
    /\ UNCHANGED <<rm_pc, rm_in, rm_html>>
    /\ UNCHANGED notModulesVars

\* Lines 29..30: the rows are joined and put in the shell.
ReturnHtml ==
    /\ rm_pc = "rows"
    /\ rm_idx > Len(rm_in.modules)
    /\ rm_html' = _email_shell(JoinLines(rm_rows), EmailWidth(rm_in.page_width_px))
    /\ rm_pc' = "done"
    /\ UNCHANGED <<rm_in, rm_idx, rm_rows>>
    /\ UNCHANGED notModulesVars

SpecModulesInit == ModulesInit /\ DiffIdle /\ CellIdle /\ StoreIdle /\ RegionIdle /\ UrlIdle /\ ExtractIdle /\ TextsIdle /\ RenderIdle /\ PreviewIdle /\ SweepIdle /\ GetIdle /\ AgainIdle /\ ResolveIdle /\ ConvertIdle /\ EmbedIdle

SpecModulesNext == RenderModule \/ ReturnHtml

SpecModules == SpecModulesInit /\ [][SpecModulesNext]_vars

\* The modules of the model whose type tag has no renderer and whose
\* _module_id is none of the design system.
Unrecognized(m) ==
    /\ m.type \in {"Banner", "carousel", "<None>"}
    /\ m.module_id \in {"<missing>", "<None>", "zz99"}

\* The raw row of a module: its html, or else its content, or else
\* nothing, between the tags of a row.
RawRowOf(m) ==
    LET html == IF m.html \notin {"<missing>", ""} THEN m.html
                ELSE IF m.content \notin {"<missing>", ""} THEN m.content
                ELSE ""
    IN  <<"<tr><td>", html, "</td></tr>">>

\* C19: the render gives one row per module, in the order of the list;
\* the row of every module with an unrecognized type (and no recognized
\* _module_id) is the raw row with its html/content unchanged, the row
\* of every other module is not a raw row of that kind but the one of
\* its renderer; and the call ends with a document holding those rows.
C19_UnknownTypeIsRawRow ==
    /\ rm_pc \in {"rows", "done"}
          => /\ Len(rm_rows) <= Len(rm_in.modules)
             /\ \A i \in 1..Len(rm_rows) :
                  LET m == rm_in.modules[i]
                  IN  IF Unrecognized(m) THEN rm_rows[i] = RawRowOf(m)
                      ELSE m.type # "<missing>" => rm_rows[i] # RawRowOf(m)
    /\ rm_pc = "done"
          => /\ Len(rm_rows) = Len(rm_in.modules)
             /\ rm_html.body = JoinLines(rm_rows)

\* A document was returned for a list with an unrecognized module
\* followed by a recognized one.
C19_Witness ==
    /\ rm_pc = "done"
    /\ Len(rm_in.modules) = 2
    /\ Unrecognized(rm_in.modules[1])
    /\ ~Unrecognized(rm_in.modules[2])
    /\ rm_in.modules[2].type = "IMAGE"
    /\ rm_rows[1] = <<"<tr><td>", "<b>x</b>", "</td></tr>">>

---------------------------------------------------------------------------
(* utils/storage.py, app.py: cleanup_expired_outputs beside the requests   *)

\* The process ids of the requests (each drawn once: pdf_input.py line
\* 72, app.py line 495) and the sweeps that may run at the same time.
SweepPids == {"0b5e", "7c21"}
Sweepers == {1, 2}

NoSweep == [pc |-> "idle", items |-> {}, item |-> ""]

SweepInit ==
    /\ now = 0
    /\ dirs = [p \in SweepPids |-> NoDir]
    /\ last = NoLast
    /\ sweep = [s \in Sweepers |-> NoSweep]
    /\ made = {}

\* A request draws its process id and makes its output directory.
MakeOutputDir ==
    \E p \in SweepPids \ made :
        /\ made' = made \cup {p}
        /\ dirs' = [dirs EXCEPT ![p].exists = TRUE]
        /\ UNCHANGED <<now, last, sweep>>
        /\ UNCHANGED notStoreSweepVars

\* A request saves an artifact in its output directory.
SaveAsset ==
    \E p \in SweepPids, f \in {PreviewName, RenderName} :
        /\ dirs[p].exists
        /\ f \notin dirs[p].files
        /\ dirs' = [dirs EXCEPT ![p].files = @ \cup {f}]
        /\ UNCHANGED <<now, last, sweep, made>>
        /\ UNCHANGED notStoreSweepVars

\* write_process_meta(output_dir, process_id, public_base_url, ttl_seconds),
\* called by the request of the process when its artifacts are saved.
WriteProcessMeta ==
    \E p \in SweepPids :
        /\ dirs[p].exists
        /\ dirs[p].expires_at < 0
        /\ dirs' = [dirs EXCEPT ![p].expires_at = now + TtlTicks]
        /\ UNCHANGED <<now, last, sweep, made>>
        /\ UNCHANGED notStoreSweepVars

\* Lines 72..74: os.listdir(OUTPUT_FOLDER).
SweepList ==
    \E s \in Sweepers :
        /\ sweep[s].pc = "idle"
        /\ sweep' = [sweep EXCEPT ![s] = [pc |-> "loop",
                                          items |-> { p \in SweepPids : dirs[p].exists },
                                          item |-> ""]]
        /\ UNCHANGED <<now, dirs, last, made>>
        /\ UNCHANGED notStoreSweepVars

\* Lines 74..79: the next item; not a directory any more, not expired, or
\* expired and about to be removed.
SweepCheck ==
    \E s \in Sweepers : \E p \in sweep[s].items :
        /\ sweep[s].pc = "loop"
        /\ sweep' = [sweep EXCEPT ![s] =
                        IF is_output_expired(dirs, p, now)
                        THEN [pc |-> "rmtree", items |-> @.items \ {p}, item |-> p]
                        ELSE [pc |-> "loop", items |-> @.items \ {p}, item |-> ""]]
        /\ UNCHANGED <<now, dirs, last, made>>
        /\ UNCHANGED notStoreSweepVars

\* Line 80: shutil.rmtree(output_dir, ignore_errors=True)
SweepRemove ==
    \E s \in Sweepers :
        /\ sweep[s].pc = "rmtree"
        /\ dirs' = [dirs EXCEPT ![sweep[s].item] = NoDir]
        /\ sweep' = [sweep EXCEPT ![s] = [pc |-> "loop", items |-> @.items, item |-> ""]]
        /\ UNCHANGED <<now, last, made>>
        /\ UNCHANGED notStoreSweepVars

\* The loop of line 74 is over.
SweepReturn ==
    \E s \in Sweepers :
        /\ sweep[s].pc = "loop"
        /\ sweep[s].items = {}
        /\ sweep' = [sweep EXCEPT ![s] = NoSweep]
        /\ UNCHANGED <<now, dirs, last, made>>
        /\ UNCHANGED notStoreSweepVars

SpecSweepInit == SweepInit /\ DiffIdle /\ CellIdle /\ RegionIdle /\ UrlIdle /\ ExtractIdle /\ TextsIdle /\ RenderIdle /\ PreviewIdle /\ ModulesIdle /\ GetIdle /\ AgainIdle /\ ResolveIdle /\ ConvertIdle /\ EmbedIdle

SpecSweepNext ==
    MakeOutputDir \/ SaveAsset \/ WriteProcessMeta \/ Tick
        \/ SweepList \/ SweepCheck \/ SweepRemove \/ SweepReturn

SpecSweep == SpecSweepInit /\ [][SpecSweepNext]_vars

\* Directory p loses itself or one of its files in the step.
LosesSomething(p) ==
    /\ dirs[p].exists
    /\ \/ ~dirs'[p].exists
       \/ ~(dirs[p].files \subseteq dirs'[p].files)
       \/ dirs'[p].expires_at # dirs[p].expires_at /\ dirs[p].expires_at >= 0

\* C20: whatever step is taken, by a sweep or by a request, a process
\* directory loses itself, a file or its metadata only if its metadata
\* has an expires_at at or before the current time: a directory that is
\* not expired, or has no metadata, keeps every file.
C20_SweepTakesOnlyExpired ==
    [][\A p \in SweepPids :
          LosesSomething(p) => (dirs[p].expires_at >= 0 /\ dirs[p].expires_at <= now)]_vars

\* A sweep has removed an expired directory while another sweep is under
\* way and a directory with a file and without metadata is still whole.
C20_Witness ==
    \E p \in made, q \in made :
        /\ ~dirs[p].exists
        /\ dirs[q].exists
        /\ dirs[q].files = {PreviewName}
        /\ dirs[q].expires_at < 0
        /\ \E s \in Sweepers : sweep[s].pc = "loop" /\ q \notin sweep[s].items

---------------------------------------------------------------------------
(* app.py: download_html, view_html, serve_asset                           *)

UPLOAD_FOLDER == <<"/", "tmp", "/", "uploads">>

\* The components of a path: the runs of tokens between "/".
RECURSIVE ComponentsFrom(_, _)
ComponentsFrom(path, cur) ==
    IF path = <<>> THEN (IF cur = <<>> THEN <<>> ELSE <<cur>>)
    ELSE IF Head(path) = "/"
         THEN (IF cur = <<>> THEN <<>> ELSE <<cur>>) \o ComponentsFrom(Tail(path), <<>>)
         ELSE ComponentsFrom(Tail(path), Append(cur, Head(path)))

\* "." dropped and ".." taken with the component before it.
RECURSIVE Collapse(_, _)
Collapse(comps, stack) ==
    IF comps = <<>> THEN stack
    ELSE IF Head(comps) = <<".">> THEN Collapse(Tail(comps), stack)
    ELSE IF Head(comps) = <<"..">>
         THEN Collapse(Tail(comps),
                       IF stack = <<>> THEN <<>> ELSE SubSeq(stack, 1, Len(stack) - 1))
         ELSE Collapse(Tail(comps), Append(stack, Head(comps)))

RECURSIVE Rebuild(_)
Rebuild(comps) ==
    IF comps = <<>> THEN <<>> ELSE <<"/">> \o Head(comps) \o Rebuild(Tail(comps))

\* os.path.abspath(path) of an absolute path.
AbsPath(path) ==
    LET out == Rebuild(Collapse(ComponentsFrom(path, <<>>), <<>>))
    IN  IF out = <<>> THEN <<"/">> ELSE out

\* What is on the disk beside the process directories.
EnvDirs ==
    { <<"/">>, <<"/", "tmp">>, OUTPUT_FOLDER, UPLOAD_FOLDER, <<"/", "usr">>,
      <<"/", "usr", "/", "lib">>, <<"/", "usr", "/", "lib", "64">> }
EnvFiles ==
    { <<"/", "usr", "/", "lib", "/", "os-release">>,
      <<"/", "usr", "/", "lib", "64", "/", "ld.so">> }

\* os.path.isdir and os.path.isfile of a normalised path, on store d.
IsDirAt(d, path) ==
    \/ path \in EnvDirs
    \/ \E p \in DOMAIN d : d[p].exists /\ path = OutputDir(p)

IsFileAt(d, path) ==
    \/ path \in EnvFiles
    \/ \E p \in DOMAIN d :
         /\ d[p].exists
         /\ \/ \E f \in d[p].files : path = PathJoin(OutputDir(p), <<f>>)
            \/ d[p].expires_at >= 0 /\ path = PathJoin(OutputDir(p), <<PROCESS_META_FILENAME>>)

\* os.path.exists(path): every directory on the way is there, ".." too.
RECURSIVE WalkExists(_, _, _)
WalkExists(d, comps, stack) ==
    LET here == IF stack = <<>> THEN <<"/">> ELSE Rebuild(stack)
    IN  IF comps = <<>> THEN IsDirAt(d, here) \/ IsFileAt(d, here)
        ELSE /\ IsDirAt(d, here)
             /\ WalkExists(d, Tail(comps), Collapse(<<Head(comps)>>, stack))

PathExists(d, path) == WalkExists(d, ComponentsFrom(path, <<>>), <<>>)

\* The process whose directory output_dir is, or "" for another path.
ProcessAt(d, output_dir) ==
    IF \E p \in DOMAIN d : AbsPath(output_dir) = OutputDir(p)
    THEN CHOOSE p \in DOMAIN d : AbsPath(output_dir) = OutputDir(p)
    ELSE ""

\* is_output_expired(output_dir)[0] (lines 113..120) for any path.
ExpiredAt(d, output_dir, t) ==
    /\ ProcessAt(d, output_dir) # ""
    /\ is_output_expired(d, ProcessAt(d, output_dir), t)

\* cleanup_expired_outputs() (lines 123..132) on store d at time t.
Swept(d, t) == [p \in DOMAIN d |-> IF is_output_expired(d, p, t) THEN NoDir ELSE d[p]]

\* shutil.rmtree(output_dir, ignore_errors=True)
RemoveTree(d, output_dir) ==
    [p \in DOMAIN d |-> IF p = ProcessAt(d, output_dir) THEN NoDir ELSE d[p]]

\* A slip for line 812: the path must lie in the directory, not only
\* begin with its characters.
InsideOutputDir_sep(full_path, output_dir) ==
    StartsWith(full_path, output_dir \o <<"/">>)

\* Line 812: full_path.startswith(output_dir)
InsideOutputDir(full_path, output_dir) == StartsWith(full_path, output_dir)

\* The html files of os.listdir(output_dir) (lines 746 and 783).
HtmlFiles(d, output_dir) ==
    IF ProcessAt(d, output_dir) = "" THEN {}
    ELSE { f \in d[ProcessAt(d, output_dir)].files : f = "doc.html" }

\* The process directories of the model and what they may hold.
GetPids == {"0b5e", "7c21"}
DirStates ==
    { NoDir } \cup
    { [exists |-> TRUE, files |-> fs, expires_at |-> e] :
        fs \in { {}, {"doc.html", "page1.png"} }, e \in {-1, 0, 1} }

GetRequests ==
    { [action |-> a, process_id |-> p, asset_path |-> ap] :
        a \in {"download", "view"}, p \in { <<"0b5e">>, <<"ffff">> }, ap \in { <<>> } }
    \cup
    { [action |-> "asset", process_id |-> p, asset_path |-> ap] :
        p \in { <<"0b5e">>, <<"ffff">>, <<"..", "/", "..", "/", "usr", "/", "lib">> },
        ap \in { <<"page1.png">>, <<"missing.png">>,
                 <<"..", "/", "7c21", "/", "page1.png">>,
                 <<"..", "/", "lib", "64", "/", "ld.so">>,
                 <<"os-release">> } }

GetInit ==
    /\ now = 0
    /\ dirs \in [GetPids -> DirStates]
    /\ last = NoLast
    /\ gt_pc = "idle"
    /\ gt_req = NoRequest
    /\ gt_was = [existed |-> FALSE, expired |-> FALSE]
    /\ gt_resp = NoResponse

RequestDir == PathJoin(OUTPUT_FOLDER, gt_req.process_id)

\* The request arrives.
GetArrive ==
    /\ gt_pc = "idle"
    /\ \E r \in GetRequests :
         /\ gt_req' = r
         /\ gt_was' = [existed |-> PathExists(dirs, PathJoin(OUTPUT_FOLDER, r.process_id)),
                       expired |-> ExpiredAt(dirs, PathJoin(OUTPUT_FOLDER, r.process_id), now)]
    /\ gt_pc' = "cleanup"
    /\ UNCHANGED <<gt_resp, now, dirs, last>>
    /\ UNCHANGED notStoreGetVars

\* Lines 734, 767, 799: cleanup_expired_outputs()
GetCleanup ==
    /\ gt_pc = "cleanup"
    /\ dirs' = Swept(dirs, now)
    /\ gt_pc' = "exists"
    /\ UNCHANGED <<gt_req, gt_was, gt_resp, now, last>>
    /\ UNCHANGED notStoreGetVars

Respond(status, error, file) ==
    /\ gt_resp' = [status |-> status, error |-> error, file |-> file]
    /\ gt_pc' = "done"
    /\ UNCHANGED <<gt_req, gt_was, now, last>>
    /\ UNCHANGED notStoreGetVars

\* Lines 737..738, 769..770, 801..802.
GetNotFound ==
    /\ gt_pc = "exists"
    /\ ~PathExists(dirs, RequestDir)
    /\ Respond(404, "Proceso no encontrado", <<>>)
    /\ UNCHANGED dirs

\* Lines 740..743, 772..775, 804..807.
GetExpired ==
    /\ gt_pc = "exists"
    /\ PathExists(dirs, RequestDir)
    /\ ExpiredAt(dirs, RequestDir, now)
    /\ dirs' = RemoveTree(dirs, RequestDir)
    /\ Respond(410, "Proceso expirado (TTL 1 hora)", <<>>)

Alive ==
    /\ gt_pc = "exists"
    /\ PathExists(dirs, RequestDir)
    /\ ~ExpiredAt(dirs, RequestDir, now)

\* Lines 745..758 and 777..786: the html file of the process, or 404.
GetHtml ==
    /\ Alive
    /\ gt_req.action \in {"download", "view"}
    /\ IF HtmlFiles(dirs, RequestDir) = {}
       THEN Respond(404, "HTML no encontrado", <<>>)
       ELSE \E f \in HtmlFiles(dirs, RequestDir) :
                Respond(200, "", PathJoin(AbsPath(RequestDir), <<f>>))
    /\ UNCHANGED dirs

\* Lines 809..816.
GetAsset ==
    /\ Alive
    /\ gt_req.action = "asset"
    /\ LET output_dir == AbsPath(RequestDir)
           full_path == AbsPath(PathJoin(output_dir, gt_req.asset_path))
       IN  IF ~InsideOutputDir(full_path, output_dir) \/ ~IsFileAt(dirs, full_path)
           THEN Respond(404, "Asset no encontrado", <<>>)
           ELSE Respond(200, "", full_path)
    /\ UNCHANGED dirs

SpecGetInit == GetInit /\ DiffIdle /\ CellIdle /\ RegionIdle /\ UrlIdle /\ ExtractIdle /\ TextsIdle /\ RenderIdle /\ PreviewIdle /\ ModulesIdle /\ SweepIdle /\ AgainIdle /\ ResolveIdle /\ ConvertIdle /\ EmbedIdle

SpecGetNext ==
    GetArrive \/ GetCleanup \/ GetNotFound \/ GetExpired \/ GetHtml \/ GetAsset \/ Tick

SpecGet == SpecGetInit /\ [][SpecGetNext]_vars

\* path lies in directory dir: below it, after a separator.
Below(path, dir) ==
    /\ Len(path) > Len(dir) + 1
    /\ SubSeq(path, 1, Len(dir)) = dir
    /\ path[Len(dir) + 1] = "/"

\* C21: an asset request is answered with a file only if the file lies
\* in the output directory of the requested process; for a path that
\* leaves that directory, such as one into a sibling whose name begins
\* with the same characters, no file is sent.
C21_ServedFileInsideOwnDir ==
    (gt_pc = "done" /\ gt_req.action = "asset" /\ gt_resp.status = 200)
        => Below(gt_resp.file, AbsPath(PathJoin(OUTPUT_FOLDER, gt_req.process_id)))

\* C22: a request that arrived for a process whose expires_at had passed
\* is answered 410 and the directory is gone; "Proceso no encontrado"
\* (404) answers only a request whose process directory did not exist.
C22_ExpiredIs410 ==
    gt_pc = "done" =>
        /\ gt_was.expired
              => /\ gt_resp.status = 410
                 /\ ~PathExists(dirs, PathJoin(OUTPUT_FOLDER, gt_req.process_id))
        /\ (gt_resp.status = 404 /\ gt_resp.error = "Proceso no encontrado")
              => ~gt_was.existed

---------------------------------------------------------------------------
(* The local branch of the loaders on the whole disk                       *)

\* os.path.isfile(path) of a path as joined, ".." not yet taken.
IsFilePath(d, path) == PathExists(d, path) /\ IsFileAt(d, AbsPath(path))

\* The file the local branch of a loader returns for url, <<>> when the
\* branch returns nothing: differ.py 130..138, previewer.py 30..45.
LocalFileRead(d, url, public_base_url, matches) ==
    IF matches /\ AssetFilePath(url) # <<>> /\ IsFilePath(d, AssetFilePath(url))
    THEN AbsPath(AssetFilePath(url))
    ELSE <<>>

\* URLs as a client writes them into a diff request or an html document.
LocalUrls ==
    { build_public_asset_url(<<"http://svc">>, p, f) :
        p \in { <<"0b5e">>, <<"..", "/", "..", "/", "usr", "/", "lib">>,
                <<"/", "usr", "/", "lib">>, <<"..", "/", "outputs", "/", "7c21">> },
        f \in { <<"os-release">>, <<"..", "/", "7c21", "/", "page1.png">> } }

LocalInit ==
    /\ now = 0
    /\ dirs \in [GetPids -> { NoDir, [exists |-> TRUE, files |-> {"doc.html", "page1.png"}, expires_at |-> 1] }]
    /\ last = NoLast

\* _load_image(source, public_base_url): "how" holds the file read.
LocalLoadImage ==
    \E source \in LocalUrls, b \in Bases :
        /\ last' = [op |-> "load_image", url |-> source, base |-> b,
                    how |-> LocalFileRead(dirs, source, b, LoaderMatches(source, b)),
                    expired |-> ExpiredAt(dirs, AssetFilePath(source), now)]
        /\ UNCHANGED <<now, dirs>>
        /\ UNCHANGED notStoreVars

\* fetcher(url) of _make_asset_fetcher(public_base_url).
LocalFetch ==
    \E url \in LocalUrls, b \in Bases :
        /\ last' = [op |-> "fetcher", url |-> url, base |-> b,
                    how |-> LocalFileRead(dirs, url, b, FetcherMatches(url, b)),
                    expired |-> ExpiredAt(dirs, AssetFilePath(url), now)]
        /\ UNCHANGED <<now, dirs>>
        /\ UNCHANGED notStoreVars

SpecLocalInit == LocalInit /\ DiffIdle /\ CellIdle /\ RegionIdle /\ UrlIdle /\ ExtractIdle /\ TextsIdle /\ RenderIdle /\ PreviewIdle /\ ModulesIdle /\ SweepIdle /\ GetIdle /\ AgainIdle /\ ResolveIdle /\ ConvertIdle /\ EmbedIdle
SpecLocalNext == LocalLoadImage \/ LocalFetch \/ Tick
SpecLocal == SpecLocalInit /\ [][SpecLocalNext]_vars

\* C25: the file a loader reads in its local branch lies in OUTPUT_FOLDER,
\* whatever the process_id and asset_path of the URL are.
C25_LocalReadInsideOutputFolder ==
    (last.op \in {"load_image", "fetcher"} /\ last.how # <<>>)
        => Below(last.how, OUTPUT_FOLDER)

---------------------------------------------------------------------------
(* services/previewer.py: html_to_png, one call after another              *)

MaxCalls == 3

\* The documents given: two that render to a page, one that renders to none.
AgainHtmls == {"<p>A</p>", "<p>B</p>", ""}
AgainDpis == {150, 300}

\* Lines 77..88: the pixmap of the first page of the document at a dpi.
PixmapOf(html, dpi) == [html |-> html, dpi |-> dpi]

\* The file a URL of the asset endpoint names and what it holds.
ImageAt(disk, url) ==
    IF AssetFilePath(url) \in DOMAIN disk THEN disk[AssetFilePath(url)] ELSE NoPixmap

AgainInit ==
    /\ pa_disk = [path \in {} |-> NoPixmap]
    /\ pa_calls = <<>>

\* html_to_png(html, OUTPUT_FOLDER/pid, public_base_url, pid, dpi=dpi)
HtmlToPngAgain ==
    /\ Len(pa_calls) < MaxCalls
    /\ \E html \in AgainHtmls, dpi \in AgainDpis, pid \in GetPids :
         LET filename == <<PreviewName>>
             png_path == PathJoin(OutputDir(pid), filename)
         IN  IF html = ""
             THEN UNCHANGED <<pa_disk, pa_calls>>
             ELSE /\ pa_disk' = [path \in DOMAIN pa_disk \cup {png_path} |->
                                   IF path = png_path THEN PixmapOf(html, dpi)
                                   ELSE pa_disk[path]]
                  /\ pa_calls' = Append(pa_calls,
                                   [image |-> PixmapOf(html, dpi),
                                    url |-> build_public_asset_url(<<"http://svc">>, <<pid>>, filename)])
    /\ UNCHANGED notAgainVars

SpecAgainInit == AgainInit /\ DiffIdle /\ CellIdle /\ StoreIdle /\ RegionIdle /\ UrlIdle /\ ExtractIdle /\ TextsIdle /\ RenderIdle /\ PreviewIdle /\ ModulesIdle /\ SweepIdle /\ GetIdle /\ ResolveIdle /\ ConvertIdle /\ EmbedIdle
SpecAgainNext == HtmlToPngAgain
SpecAgain == SpecAgainInit /\ [][SpecAgainNext]_vars

\* C29: the URL a call of html_to_png returned names the image that call
\* made, also after later calls for the same process id and directory.
C29_UrlKeepsItsImage ==
    \A i \in 1..Len(pa_calls) : ImageAt(pa_disk, pa_calls[i].url) = pa_calls[i].image

\* The last call's URL does name its image.
C29_LastUrlNamesItsImage ==
    pa_calls # <<>> => ImageAt(pa_disk, pa_calls[Len(pa_calls)].url) = pa_calls[Len(pa_calls)].image

---------------------------------------------------------------------------
(* utils/pdf_input.py: resolve_pdf_input, download_pdf_from_url            *)

\* The position of the last tok in str, 0 when none.
RECURSIVE LastIndex(_, _)
LastIndex(str, tok) ==
    IF str = <<>> THEN 0
    ELSE IF str[Len(str)] = tok THEN Len(str)
    ELSE LastIndex(SubSeq(str, 1, Len(str) - 1), tok)

\* A slip for line 17: any name with a dot is taken.
allowed_file_anydot(filename) == LastIndex(filename, ".") > 0

\* Lines 16..17.
allowed_file(filename) ==
    LET i == LastIndex(filename, ".")
    IN  /\ i > 0
        /\ Len(filename) = i + 1
        /\ Lower(filename[i + 1]) \in {"pdf"}

\* werkzeug's secure_filename: separators and blanks become "_", then
\* dots and underscores are stripped from both ends.
RECURSIVE StripDots(_)
StripDots(str) ==
    IF str # <<>> /\ str[1] \in {".", "..", "_"} THEN StripDots(Tail(str))
    ELSE IF str # <<>> /\ str[Len(str)] \in {".", "..", "_"}
         THEN StripDots(SubSeq(str, 1, Len(str) - 1))
         ELSE str

secure_filename(filename) ==
    StripDots([i \in 1..Len(filename) |->
                  IF filename[i] \in {"/", " "} THEN "_" ELSE filename[i]])

\* urlparse(pdf_url).path: from the first "/" after the host to the query.
UrlPathOf(pdf_url) ==
    LET i == IndexFrom(pdf_url, "/", 1)
        q == IndexFrom(pdf_url, "?", 1)
    IN  IF i = 0 \/ (q # 0 /\ q < i) THEN <<>>
        ELSE SubSeq(pdf_url, i, IF q = 0 THEN Len(pdf_url) ELSE q - 1)

\* Lines 20..27.
infer_pdf_filename_from_url(pdf_url) ==
    LET candidate == Basename(UrlPathOf(pdf_url))
    IN  IF candidate = <<>> THEN <<"document", ".", "pdf">>
        ELSE IF ~(Len(candidate) >= 2 /\ candidate[Len(candidate) - 1] = "."
                   /\ Lower(candidate[Len(candidate)]) = "pdf")
             THEN candidate \o <<".", "pdf">>
             ELSE candidate

\* f"{process_id}_{name}" in upload_folder (lines 80 and 92).
UploadPath(upload_folder, process_id, name) ==
    PathJoin(upload_folder, <<process_id, "_">> \o name)

ResolveUploads ==
    { NoUpload } \cup
    { [present |-> TRUE, filename |-> f] :
        f \in { <<>>, <<"a", ".", "pdf">>, <<"notes", ".", "txt">>,
                <<"..", "/", "up", ".", "PDF">>, <<"README">> } }

RemoteUrls ==
    { <<"http://cdn", "/", "files", "/", "report", ".", "pdf">>,
      <<"http://cdn", "/", "get", "?", "id", "=", "7">>,
      <<"http://cdn", "/", "..", "/", "..">> }

\* The body: none, a JSON object with or without pdf_url, null, a list.
ResolveJsons ==
    { NoJson, [is_json |-> TRUE, kind |-> "null", pdf_url |-> <<>>],
      [is_json |-> TRUE, kind |-> "list", pdf_url |-> <<>>] }
    \cup { [is_json |-> TRUE, kind |-> "object", pdf_url |-> u] :
             u \in {<<>>, <<"http://cdn", "/", "files", "/", "report", ".", "pdf">>} }

\* What the remote server answers to the download.
RemoteAnswers == {"http_error", "wrong_type", "too_big", "empty", "not_pdf", "pdf"}

ResolveInit ==
    /\ rs_pc = "start"
    /\ rs_req \in [file : ResolveUploads, json : ResolveJsons,
                   form_url : {<<>>} \cup RemoteUrls,
                   answer : RemoteAnswers, uuid : {"0b5e"}]
    /\ rs_upload = { UploadPath(UPLOAD_FOLDER, "7c21", <<"old", ".", "pdf">>) }
    /\ rs_ret = NoResolved

\* Line 79.
AcceptableUpload(req) ==
    req.file.present /\ req.file.filename # <<>> /\ allowed_file(req.file.filename)

\* Lines 86..89 with a body that has .get: request.get_json() or {}.
PdfUrlOf(req) ==
    IF req.json.kind = "object" /\ req.json.pdf_url # <<>> THEN req.json.pdf_url
    ELSE req.form_url

\* Line 88 gives a value without .get, and line 89 raises.
PayloadWithoutGet(req) == req.json.is_json /\ req.json.kind = "list"

DownloadPath(req) ==
    UploadPath(UPLOAD_FOLDER, req.uuid, secure_filename(infer_pdf_filename_from_url(PdfUrlOf(req))))

Raised(error, source) ==
    [NoResolved EXCEPT !.kind = "raised", !.error = error, !.source = source]

\* Lines 77..83: the uploaded file is saved and returned.
ResolveUpload ==
    /\ rs_pc = "start"
    /\ AcceptableUpload(rs_req)
    /\ LET original_filename == secure_filename(rs_req.file.filename)
           pdf_path == UploadPath(UPLOAD_FOLDER, rs_req.uuid, original_filename)
       IN  /\ rs_upload' = rs_upload \cup {pdf_path}
           /\ rs_ret' = [kind |-> "returned", error |-> "", source |-> "upload",
                         pdf_url |-> <<>>, pdf_path |-> pdf_path,
                         original_filename |-> original_filename,
                         temp_paths |-> <<pdf_path>>, process_id |-> rs_req.uuid]
    /\ rs_pc' = "done"
    /\ UNCHANGED rs_req
    /\ UNCHANGED notResolveVars

\* Line 89 on a JSON body that is not an object.
ResolveBadPayload ==
    /\ rs_pc = "start"
    /\ ~AcceptableUpload(rs_req)
    /\ PayloadWithoutGet(rs_req)
    /\ rs_ret' = Raised("AttributeError", "")
    /\ rs_pc' = "done"
    /\ UNCHANGED <<rs_req, rs_upload>>
    /\ UNCHANGED notResolveVars

\* Line 97.
ResolveNoSource ==
    /\ rs_pc = "start"
    /\ ~AcceptableUpload(rs_req)
    /\ ~PayloadWithoutGet(rs_req)
    /\ PdfUrlOf(rs_req) = <<>>
    /\ rs_ret' = Raised("ValueError", "")
    /\ rs_pc' = "done"
    /\ UNCHANGED <<rs_req, rs_upload>>
    /\ UNCHANGED notResolveVars

UrlChosen ==
    /\ ~AcceptableUpload(rs_req)
    /\ ~PayloadWithoutGet(rs_req)
    /\ PdfUrlOf(rs_req) # <<>>

\* Lines 43..47: the request fails or the content type is refused, before
\* the destination is opened.
DownloadRefused ==
    /\ rs_pc = "start"
    /\ UrlChosen
    /\ rs_req.answer \in {"http_error", "wrong_type"}
    /\ rs_ret' = [Raised(IF rs_req.answer = "http_error" THEN "HTTPError" ELSE "ValueError", "url")
                    EXCEPT !.pdf_url = PdfUrlOf(rs_req)]
    /\ rs_pc' = "done"
    /\ UNCHANGED <<rs_req, rs_upload>>
    /\ UNCHANGED notResolveVars

\* Line 48: open(destination_path, 'wb')
DownloadOpen ==
    /\ rs_pc = "start"
    /\ UrlChosen
    /\ rs_req.answer \notin {"http_error", "wrong_type"}
    /\ rs_upload' = rs_upload \cup {DownloadPath(rs_req)}
    /\ rs_pc' = "writing"
    /\ UNCHANGED <<rs_req, rs_ret>>
    /\ UNCHANGED notResolveVars

\* Lines 49..64: the body is over the size limit, empty, or has no
\* %PDF- header.
DownloadRejected ==
    /\ rs_pc = "writing"
    /\ rs_req.answer \in {"too_big", "empty", "not_pdf"}
    /\ rs_ret' = [Raised("ValueError", "url") EXCEPT !.pdf_url = PdfUrlOf(rs_req)]
    /\ rs_pc' = "done"
    /\ UNCHANGED <<rs_req, rs_upload>>
    /\ UNCHANGED notResolveVars

\* Lines 93..95.
DownloadReturn ==
    /\ rs_pc = "writing"
    /\ rs_req.answer = "pdf"
    /\ rs_ret' = [kind |-> "returned", error |-> "", source |-> "url",
                  pdf_url |-> PdfUrlOf(rs_req), pdf_path |-> DownloadPath(rs_req),
                  original_filename |-> infer_pdf_filename_from_url(PdfUrlOf(rs_req)),
                  temp_paths |-> <<DownloadPath(rs_req)>>, process_id |-> rs_req.uuid]
    /\ rs_pc' = "done"
    /\ UNCHANGED <<rs_req, rs_upload>>
    /\ UNCHANGED notResolveVars

SpecResolveInit == ResolveInit /\ DiffIdle /\ CellIdle /\ StoreIdle /\ RegionIdle /\ UrlIdle /\ ExtractIdle /\ TextsIdle /\ RenderIdle /\ PreviewIdle /\ ModulesIdle /\ SweepIdle /\ GetIdle /\ AgainIdle /\ ConvertIdle /\ EmbedIdle

SpecResolveNext ==
    ResolveUpload \/ ResolveBadPayload \/ ResolveNoSource \/ DownloadRefused
        \/ DownloadOpen \/ DownloadRejected \/ DownloadReturn

SpecResolve == SpecResolveInit /\ [][SpecResolveNext]_vars

\* C28: after a remote download that failed, either the path was returned
\* in the cleanup list or no file is left at it in the upload folder.
C28_FailedDownloadLeavesNoFile ==
    (rs_pc = "done" /\ rs_ret.source = "url" /\ rs_ret.kind = "raised")
        => DownloadPath(rs_req) \notin rs_upload

\* A download refused before the destination is opened leaves no file.
C28_RefusedLeavesNoFile ==
    (rs_pc = "done" /\ rs_req.answer \in {"http_error", "wrong_type"} /\ rs_ret.source = "url")
        => DownloadPath(rs_req) \notin rs_upload


\* Neither an acceptable upload nor a pdf_url, in the body or the form.
NeitherProvided(req) ==
    /\ ~AcceptableUpload(req)
    /\ req.json.pdf_url = <<>>
    /\ req.form_url = <<>>

\* The returned path is a file of upload_folder whose name begins with the
\* process id of the call.
InUploadFolder(resolved) ==
    /\ Below(AbsPath(resolved.pdf_path), UPLOAD_FOLDER)
    /\ Len(ComponentsFrom(AbsPath(resolved.pdf_path), <<>>)) = Len(ComponentsFrom(UPLOAD_FOLDER, <<>>)) + 1
    /\ StartsWith(Basename(resolved.pdf_path), <<resolved.process_id, "_">>)
    /\ resolved.process_id = rs_req.uuid

\* The order of the sources: the upload when it is acceptable, else the
\* pdf_url of the JSON body, else that of the form.
SourceInOrder ==
    /\ AcceptableUpload(rs_req) =>
          /\ rs_ret.kind = "returned" /\ rs_ret.source = "upload"
          /\ rs_ret.original_filename = secure_filename(rs_req.file.filename)
    /\ rs_ret.source = "url" =>
          /\ ~AcceptableUpload(rs_req)
          /\ rs_ret.pdf_url = (IF rs_req.json.pdf_url # <<>> THEN rs_req.json.pdf_url
                               ELSE rs_req.form_url)
    /\ rs_ret.kind = "returned" => InUploadFolder(rs_ret)

\* C30: resolve_pdf_input takes the uploaded .pdf file when there is one,
\* else the pdf_url of the JSON body, else that of the form; with neither
\* it ends with a ValueError and creates no file; a returned path is in
\* upload_folder and begins with the fresh process id.
C30_SourceOrder ==
    rs_pc = "done" =>
        /\ SourceInOrder
        /\ NeitherProvided(rs_req) =>
              /\ rs_ret.kind = "raised" /\ rs_ret.error = "ValueError"
              /\ rs_upload = { UploadPath(UPLOAD_FOLDER, "7c21", <<"old", ".", "pdf">>) }

\* The order and the returned paths alone.
C30_OrderAndPaths == rs_pc = "done" => SourceInOrder

---------------------------------------------------------------------------
(* app.py: POST /convert                                                   *)

\* The process id the request draws (line 495).
ConvertPid == "0b5e"

\* How pdfseparate (lines 525..545), pdftohtml (lines 567..583) and the
\* image strategy (lines 591..653) end.
SeparateOutcomes == {"page", "fails", "timeout", "timeout_partial"}
PdftohtmlOutcomes == {"html", "error", "timeout", "no_html"}
StrategyOutcomes == {"done", "unsupported", "missing_params", "extractor_error", "raises"}

ConvertUploads ==
    { NoUpload } \cup
    { [present |-> TRUE, filename |-> f] :
        f \in { <<>>, <<"a", ".", "pdf">>, <<"notes", ".", "txt">> } }

\* Line 526 and line 532: <id>_page1.pdf and the name pdfseparate writes.
ExtractedPdf(process_id) == PathJoin(UPLOAD_FOLDER, <<process_id, "_page1", ".pdf">>)
SeparatedFile(process_id) == PathJoin(UPLOAD_FOLDER, <<process_id, "_page1", "-1", ".pdf">>)

OldUpload == UploadPath(UPLOAD_FOLDER, "7c21", <<"old", ".", "pdf">>)

ConvertInit ==
    /\ now = 0
    /\ dirs = [p \in GetPids |->
                 IF p = ConvertPid THEN NoDir
                 ELSE [exists |-> TRUE, files |-> {"doc.html"}, expires_at |-> 1]]
    /\ last = NoLast
    /\ cv_pc = "start"
    /\ cv_req \in [file : ConvertUploads, dpi_ok : BOOLEAN, separate : SeparateOutcomes,
                   convert : PdftohtmlOutcomes, strategy : StrategyOutcomes,
                   uuid : {ConvertPid}]
    /\ cv_upload = {OldUpload}
    /\ cv_temp = {}
    /\ cv_resp = 0

\* The files in UPLOAD_FOLDER that this request, or a tool it ran, wrote.
CreatedByRequest == { f \in cv_upload : Basename(f)[1] = cv_req.uuid }

\* A return statement or an except clause: the status is set and the
\* finally block is next.
Return(status) ==
    /\ cv_resp' = status
    /\ cv_pc' = "finally"

\* Line 480: cleanup_expired_outputs()
ConvertCleanup ==
    /\ cv_pc = "start"
    /\ dirs' = Swept(dirs, now)
    /\ cv_pc' = "validate"
    /\ UNCHANGED <<now, last, cv_req, cv_upload, cv_temp, cv_resp>>
    /\ UNCHANGED notStoreConvertVars

\* Lines 483..492: no file, an empty name, or not a .pdf name.
ConvertRefuse ==
    /\ cv_pc = "validate"
    /\ ~AcceptableUpload(cv_req)
    /\ Return(400)
    /\ UNCHANGED <<now, dirs, last, cv_req, cv_upload, cv_temp>>
    /\ UNCHANGED notStoreConvertVars

\* Lines 495..505: the upload is saved and the output directory made.
ConvertSave ==
    /\ cv_pc = "validate"
    /\ AcceptableUpload(cv_req)
    /\ LET pdf_path == UploadPath(UPLOAD_FOLDER, cv_req.uuid, secure_filename(cv_req.file.filename))
       IN  /\ cv_upload' = cv_upload \cup {pdf_path}
           /\ cv_temp' = cv_temp \cup {pdf_path}
    /\ dirs' = [dirs EXCEPT ![cv_req.uuid].exists = TRUE]
    /\ cv_pc' = "params"
    /\ UNCHANGED <<now, last, cv_req, cv_resp>>
    /\ UNCHANGED notStoreConvertVars

\* Lines 517..522: render_dpi is not a positive integer.
ConvertBadDpi ==
    /\ cv_pc = "params"
    /\ ~cv_req.dpi_ok
    /\ Return(400)
    /\ UNCHANGED <<now, dirs, last, cv_req, cv_upload, cv_temp>>
    /\ UNCHANGED notStoreConvertVars

\* Lines 525..548: pdfseparate writes <id>_page1-1.pdf, which is renamed
\* and noted; or it fails or is stopped after 30 seconds, having written
\* nothing or a part of its file, and the exception is passed over.
ConvertSeparate ==
    /\ cv_pc = "params"
    /\ cv_req.dpi_ok
    /\ CASE cv_req.separate = "page" ->
              /\ cv_upload' = cv_upload \cup {ExtractedPdf(cv_req.uuid)}
              /\ cv_temp' = cv_temp \cup {ExtractedPdf(cv_req.uuid)}
         [] cv_req.separate = "timeout_partial" ->
              /\ cv_upload' = cv_upload \cup {SeparatedFile(cv_req.uuid)}
              /\ UNCHANGED cv_temp
         [] OTHER -> UNCHANGED <<cv_upload, cv_temp>>
    /\ cv_pc' = "pdftohtml"
    /\ UNCHANGED <<now, dirs, last, cv_req, cv_resp>>
    /\ UNCHANGED notStoreConvertVars

\* Lines 567..583 and 717..718: pdftohtml fails, is stopped after 60
\* seconds, or leaves no html file.
ConvertFails ==
    /\ cv_pc = "pdftohtml"
    /\ cv_req.convert # "html"
    /\ Return(500)
    /\ UNCHANGED <<now, dirs, last, cv_req, cv_upload, cv_temp>>
    /\ UNCHANGED notStoreConvertVars

\* Lines 567..590: the html file and its images are in the output directory.
ConvertHtml ==
    /\ cv_pc = "pdftohtml"
    /\ cv_req.convert = "html"
    /\ dirs[cv_req.uuid].exists
    /\ dirs' = [dirs EXCEPT ![cv_req.uuid].files = @ \cup {"doc.html", "page1.png"}]
    /\ cv_pc' = "strategy"
    /\ UNCHANGED <<now, last, cv_req, cv_upload, cv_temp, cv_resp>>
    /\ UNCHANGED notStoreConvertVars

\* Lines 616..653 and 719..720: the strategy is not one of the four (400),
\* lacks its parameters (400), the extractor fails (502), or something
\* raises (500).
ConvertStrategyFails ==
    /\ cv_pc = "strategy"
    /\ cv_req.strategy # "done"
    /\ Return(CASE cv_req.strategy \in {"unsupported", "missing_params"} -> 400
                [] cv_req.strategy = "extractor_error" -> 502
                [] OTHER -> 500)
    /\ UNCHANGED <<now, dirs, last, cv_req, cv_upload, cv_temp>>
    /\ UNCHANGED notStoreConvertVars

\* Lines 656..716: the html is rewritten, the metadata written, and the
\* response made.
ConvertSucceeds ==
    /\ cv_pc = "strategy"
    /\ cv_req.strategy = "done"
    /\ dirs[cv_req.uuid].exists
    /\ dirs' = [dirs EXCEPT ![cv_req.uuid].expires_at = now + TtlTicks]
    /\ Return(200)
    /\ UNCHANGED <<now, last, cv_req, cv_upload, cv_temp>>
    /\ UNCHANGED notStoreConvertVars

\* Lines 721..728: the files of temp_paths are removed.
ConvertFinally ==
    /\ cv_pc = "finally"
    /\ cv_upload' = cv_upload \ cv_temp
    /\ cv_pc' = "done"
    /\ UNCHANGED <<now, dirs, last, cv_req, cv_temp, cv_resp>>
    /\ UNCHANGED notStoreConvertVars

\* cleanup_expired_outputs() of another request, at any time.
OtherSweep ==
    /\ dirs' = Swept(dirs, now)
    /\ dirs' # dirs
    /\ UNCHANGED <<now, last>>
    /\ UNCHANGED notStoreVars

SpecConvertInit == ConvertInit /\ DiffIdle /\ CellIdle /\ RegionIdle /\ UrlIdle /\ ExtractIdle /\ TextsIdle /\ RenderIdle /\ PreviewIdle /\ ModulesIdle /\ SweepIdle /\ GetIdle /\ AgainIdle /\ ResolveIdle /\ EmbedIdle

SpecConvertNext ==
    ConvertCleanup \/ ConvertRefuse \/ ConvertSave \/ ConvertBadDpi \/ ConvertSeparate
        \/ ConvertFails \/ ConvertHtml \/ ConvertStrategyFails \/ ConvertSucceeds
        \/ ConvertFinally \/ OtherSweep \/ Tick

SpecConvert == SpecConvertInit /\ [][SpecConvertNext]_vars

\* C23: when POST /convert has returned, by whatever path, no file that
\* the request created in UPLOAD_FOLDER is left: neither the saved upload
\* nor the separated first page.
C23_NoUploadLeft ==
    cv_pc = "done" => CreatedByRequest = {}

\* The files noted in temp_paths are gone after the return.
C23_NotedFilesRemoved ==
    cv_pc = "done" => cv_temp \cap cv_upload = {}

\* C26: an output directory that a finished POST /convert left behind is
\* one that a sweep deletes: there is a time from which
\* cleanup_expired_outputs finds it expired.
C26_LeftDirectoryExpires ==
    (cv_pc = "done" /\ dirs[cv_req.uuid].exists)
        => \E t \in 0..(MaxTime + TtlTicks) : is_output_expired(dirs, cv_req.uuid, t)

\* After a successful conversion the directory does expire.
C26_SuccessExpires ==
    (cv_pc = "done" /\ cv_resp = 200 /\ dirs[cv_req.uuid].exists)
        => is_output_expired(dirs, cv_req.uuid, MaxTime + TtlTicks)


\* The request of process p is between the making of its directory and
\* the writing of its metadata.
InProgress(p) == p \in made /\ dirs[p].exists /\ dirs[p].expires_at < 0

\* C27: while a request is between the creation of its output directory
\* and the writing of its metadata, no step of a sweep running beside it
\* removes the directory or a file in it.
C27_SweepSparesRequestInProgress ==
    [][\A p \in SweepPids :
          InProgress(p) => (dirs'[p].exists /\ dirs[p].files \subseteq dirs'[p].files)]_vars

\* A sweep that listed the directory of a request in progress, with a file
\* in it, is removing the expired directory of another process.
C27_Witness ==
    \E s \in Sweepers, p \in SweepPids :
        /\ InProgress(p)
        /\ dirs[p].files # {}
        /\ p \in sweep[s].items
        /\ sweep[s].pc = "rmtree"
        /\ sweep[s].item # p

---------------------------------------------------------------------------
(* app.py: rewrite_html_img_sources, rewrite_html_images_to_embedded_data_uris *)

MaxImgs == 3

\* The elements of the html: an <img> with a quoted src, an <img>
\* without src, and a paragraph.
Img(src) == [tag |-> "img", src |-> src]
HtmlElements == { Img(<<"page1.png">>), Img(<<"bg.png">>), [tag |-> "img", src |-> <<>>],
                  [tag |-> "p", src |-> <<>>] }
ExtractorUrls ==
    { <<"http://ex", "/", "render_1.png">>, <<"http://ex", "/", "img_1.jpg">>,
      <<"http://ex", "/", "img_2.png">> }

\* base64 of the bytes the URL serves.
Base64Of(url) ==
    CASE url = <<"http://ex", "/", "render_1.png">> -> "iVBORw0KGgoR"
      [] url = <<"http://ex", "/", "img_1.jpg">>    -> "/9j/4AAQSkZJ"
      [] OTHER                                     -> "iVBORw0KGgoI"

\* Lines 162..168: url_to_data_uri of a URL that is served.
url_to_data_uri(url) ==
    <<"data:", (IF url[Len(url)] = "img_1.jpg" THEN "image/jpeg" ELSE "image/png"),
      ";base64,", Base64Of(url)>>

\* The pattern of line 151 matches the element.
MatchesImgSrc(el) == el.tag = "img" /\ el.src # <<>>

\* The number of matches among the first n elements.
RECURSIVE MatchesBefore(_, _)
MatchesBefore(html, n) ==
    IF n = 0 THEN 0
    ELSE MatchesBefore(html, n - 1) + (IF MatchesImgSrc(html[n]) THEN 1 ELSE 0)

\* Lines 135..152: the k-th match takes source_values[k] while there is one.
rewrite_html_img_sources(html_content, source_values) ==
    IF source_values = <<>> THEN html_content
    ELSE [n \in 1..Len(html_content) |->
            IF MatchesImgSrc(html_content[n]) /\ MatchesBefore(html_content, n) <= Len(source_values)
            THEN [html_content[n] EXCEPT !.src = source_values[MatchesBefore(html_content, n)]]
            ELSE html_content[n]]

\* The lists of distinct URLs of a length.
UrlLists(n) ==
    { l \in [1..n -> ExtractorUrls] : \A i, j \in 1..n : i # j => l[i] # l[j] }

EmbedInit ==
    /\ em_pc = "start"
    /\ em_in \in { [html |-> html_content, image_urls |-> image_urls, failing |-> failing] :
                     html_content \in UNION { [1..n -> HtmlElements] : n \in 0..MaxImgs },
                     image_urls \in UNION { UrlLists(n) : n \in 0..3 },
                     failing \in { {}, {<<"http://ex", "/", "render_1.png">>},
                             {<<"http://ex", "/", "img_1.jpg">>}, ExtractorUrls } }
    /\ em_idx = 0
    /\ em_uris = <<>>
    /\ em_out = <<>>

\* Lines 337..338.
EmbedNoUrls ==
    /\ em_pc = "start"
    /\ em_in.image_urls = <<>>
    /\ em_out' = em_in.html
    /\ em_pc' = "done"
    /\ UNCHANGED <<em_in, em_idx, em_uris>>
    /\ UNCHANGED notEmbedVars

\* Lines 340..342: the next URL is downloaded and encoded.
EmbedDownload ==
    /\ em_pc \in {"start", "loop"}
    /\ em_idx < Len(em_in.image_urls)
    /\ em_in.image_urls[em_idx + 1] \notin em_in.failing
    /\ em_uris' = Append(em_uris, url_to_data_uri(em_in.image_urls[em_idx + 1]))
    /\ em_idx' = em_idx + 1
    /\ em_pc' = "loop"
    /\ UNCHANGED <<em_in, em_out>>
    /\ UNCHANGED notEmbedVars

\* Lines 343..344: the download raises and the loop continues.
EmbedDownloadFails ==
    /\ em_pc \in {"start", "loop"}
    /\ em_idx < Len(em_in.image_urls)
    /\ em_in.image_urls[em_idx + 1] \in em_in.failing
    /\ em_idx' = em_idx + 1
    /\ em_pc' = "loop"
    /\ UNCHANGED <<em_in, em_uris, em_out>>
    /\ UNCHANGED notEmbedVars

\* Line 345.
EmbedRewrite ==
    /\ em_pc = "loop"
    /\ em_idx = Len(em_in.image_urls)
    /\ em_out' = rewrite_html_img_sources(em_in.html, em_uris)
    /\ em_pc' = "done"
    /\ UNCHANGED <<em_in, em_idx, em_uris>>
    /\ UNCHANGED notEmbedVars

SpecEmbedInit == EmbedInit /\ DiffIdle /\ CellIdle /\ StoreIdle /\ RegionIdle /\ UrlIdle /\ ExtractIdle /\ TextsIdle /\ RenderIdle /\ PreviewIdle /\ ModulesIdle /\ SweepIdle /\ GetIdle /\ AgainIdle /\ ResolveIdle /\ ConvertIdle

SpecEmbedNext == EmbedNoUrls \/ EmbedDownload \/ EmbedDownloadFails \/ EmbedRewrite

SpecEmbed == SpecEmbedInit /\ [][SpecEmbedNext]_vars

\* The positions of the elements whose src was rewritten.
Rewritten == { n \in 1..Len(em_out) : em_out[n] # em_in.html[n] }

\* C24: the k-th <img> that was rewritten carries the data URI of the
\* k-th URL of image_urls, also when the download of an earlier URL failed.
C24_KthImgGetsKthUrl ==
    em_pc = "done" =>
        \A n \in Rewritten :
            em_out[n].src = url_to_data_uri(em_in.image_urls[MatchesBefore(em_in.html, n)])

\* Without a failed download the order is kept.
C24_OrderKeptWithoutFailure ==
    (em_pc = "done" /\ \A i \in 1..Len(em_in.image_urls) : em_in.image_urls[i] \notin em_in.failing)
        => \A n \in Rewritten :
              em_out[n].src = url_to_data_uri(em_in.image_urls[MatchesBefore(em_in.html, n)])

=============================================================================
